---- MODULE Spec2Model ----
(***************************************************************************)
(* Verification model of the Athena Protocol configuration engine.         *)
(*                                                                         *)
(* Part I   EnvironmentCache (src/src/config-manager.ts 56-225): the       *)
(*          process-wide TTL cache with its in-flight map, as a state      *)
(*          machine over cooperative (run-to-completion) handlers.         *)
(* Part II  Provider configuration resolution (config-manager.ts 467-1355) *)
(*          as pure operators over process.env, applied by actions.        *)
(* Part III The environment source chain (unnamed/part_008) and its wiring *)
(*          at start-up (unnamed/part_005 44-110).                         *)
(* Part IV  The targeted file reader (config-manager.ts 2496-2774, with    *)
(*          the schemas of types/internal-tool-types.ts) and the           *)
(*          priority-ordered context assembler that drives it              *)
(*          (core/thinking-validator.ts 1086-1180).                        *)
(* Part V   ConfigurationValidator (config-manager.ts 1411-1784) over the  *)
(*          operators of Part II.                                          *)
(***************************************************************************)
EXTENDS Integers, Sequences, FiniteSets, TLC

VARIABLES
  now,        \* Date.now()
  cache,      \* EnvironmentCache.cache    : Map key -> {value, timestamp, ttl}
  inFlight,   \* EnvironmentCache.inFlight : Map key -> promise (by serial)
  pending,    \* resolver computations started and not yet settled
  started,    \* number of resolver invocations so far
  callers,    \* what each caller of the cache last received / is awaiting
  hist,       \* history: per key, whether its last computation failed and was retried
  env,        \* process.env
  out,        \* the last configuration call and what it produced
  launch,     \* what the process was started with: the MCP client's env, the system's
  dotenvFile, \* the .env file of the project root
  envProvider, \* the EnvironmentProvider built at start-up
  fs,         \* the file system: path -> file
  toolConfig, \* ToolCallingService.config
  batch,      \* the readMultipleFilesTool call in progress, with its result slots
  asm,        \* the analyzeTargetedSections call in progress
  readLog,    \* history: file-system accesses started and finished, in order
  startup,    \* main(): its position, the lines written to the console, the exit code
  activeSessions, \* ThinkingValidator.activeSessions : Map id -> ValidationSession object
  sessionObjects, \* the ValidationSession objects built so far, by reference
  memoryStore,    \* ThinkingMemorySystem: the persistent sessions, id -> history
  ops         \* the validateThinking calls and where each of them is suspended

cacheVars == <<now, cache, inFlight, pending, started, callers, hist>>
confVars == <<env, out>>
sourceVars == <<launch, dotenvFile, envProvider>>
readerVars == <<fs, toolConfig, batch, asm, readLog>>
sessionVars == <<activeSessions, sessionObjects, memoryStore, ops>>
serverVars == <<startup, sessionVars>>
restVars == <<sourceVars, readerVars, serverVars>>
vars == <<now, cache, inFlight, pending, started, callers, hist, env, out,
          launch, dotenvFile, envProvider, fs, toolConfig, batch, asm, readLog,
          startup, activeSessions, sessionObjects, memoryStore, ops>>

(***************************************************************************)
(* Bounds                                                                  *)
(***************************************************************************)
MaxInvocations == 2
MaxTTL == 1
MaxTime == 2

(***************************************************************************)
(* Part I: EnvironmentCache                                                *)
(***************************************************************************)
DefaultTTL == 30000

Keys == {"DB_HOST", "API_KEY"}
Callers == {"c1", "c2"}
Undefined == "undefined"
Values == {"v1"}
NoTTL == -1
TTLArgs == {NoTTL} \cup 1..MaxTTL

\* Map helpers (JavaScript Map.set / Map.delete on a function with a finite domain)
MapSet(m, k, v) == [x \in DOMAIN m \cup {k} |-> IF x = k THEN v ELSE m[x]]
MapDelete(m, k) == [x \in DOMAIN m \ {k} |-> m[x]]
MapDeleteAll(m, ks) == [x \in DOMAIN m \ ks |-> m[x]]
EmptyMap == [x \in {} |-> 0]

\* `ttl ?? entry.ttl`
EffectiveTTL(entry, ttl) == IF ttl = NoTTL THEN entry.ttl ELSE ttl

\* mutant: an entry whose age equals its ttl already counts as expired
IsExpired_AtBoundary(timestamp, ttl, t) == t - timestamp >= ttl

\* the lazy expiration test of get() and the test of sweep()
IsExpired(timestamp, ttl, t) == t - timestamp > ttl

\* get(key, ttl): the value returned
CacheGet(c, key, ttl, t) ==
  IF key \notin DOMAIN c THEN Undefined
  ELSE IF IsExpired(c[key].timestamp, EffectiveTTL(c[key], ttl), t) THEN Undefined
  ELSE c[key].value

\* get(key, ttl): the cache it leaves behind (an expired entry is deleted)
CacheAfterGet(c, key, ttl, t) ==
  IF key \in DOMAIN c /\ IsExpired(c[key].timestamp, EffectiveTTL(c[key], ttl), t)
  THEN MapDelete(c, key)
  ELSE c

\* set(key, value, ttl): `ttl ?? this.defaultTTL ?? Infinity`
CacheSet(c, key, value, ttl, t) ==
  MapSet(c, key, [value |-> value, timestamp |-> t,
                  ttl |-> IF ttl = NoTTL THEN DefaultTTL ELSE ttl])

Idle == [st |-> "idle", serial |-> 0, result |-> Undefined]

InitCache ==
  /\ now = 0
  /\ cache = EmptyMap
  /\ inFlight = EmptyMap
  /\ pending = EmptyMap
  /\ started = 0
  /\ callers = [c \in Callers |-> Idle]
  /\ hist = [k \in Keys |-> "none"]

\* Date.now() advances between handlers
Tick ==
  /\ now < MaxTime
  /\ now' = now + 1
  /\ UNCHANGED <<cache, inFlight, pending, started, callers>>

\* envCache.get(key, ttl) called by c
Get(c, key, ttl) ==
  /\ callers[c].st # "waiting"
  /\ cache' = CacheAfterGet(cache, key, ttl, now)
  /\ callers' = [callers EXCEPT ![c] =
        [st |-> "done", serial |-> 0, result |-> CacheGet(cache, key, ttl, now)]]
  /\ UNCHANGED <<now, inFlight, pending, started>>

\* envCache.set(key, value, ttl)
Set(key, value, ttl) ==
  /\ cache' = CacheSet(cache, key, value, ttl, now)
  /\ UNCHANGED <<now, inFlight, pending, started, callers>>

\* envCache.delete(key)
Delete(key) ==
  /\ inFlight' = MapDelete(inFlight, key)
  /\ cache' = MapDelete(cache, key)
  /\ UNCHANGED <<now, pending, started, callers>>

\* envCache.clear()
Clear ==
  /\ cache' = EmptyMap
  /\ inFlight' = EmptyMap
  /\ UNCHANGED <<now, pending, started, callers>>

\* envCache.sweep()
Sweep ==
  /\ cache' = MapDeleteAll(cache,
        {k \in DOMAIN cache : IsExpired(cache[k].timestamp, cache[k].ttl, now)})
  /\ UNCHANGED <<now, inFlight, pending, started, callers>>

\* String.prototype.startsWith / endsWith / includes
StartsWith(s, p) == Len(p) <= Len(s) /\ SubSeq(s, 1, Len(p)) = p
EndsWith(s, p) == Len(p) <= Len(s) /\ SubSeq(s, Len(s) - Len(p) + 1, Len(s)) = p
Includes(s, p) == \E i \in 1..(Len(s) - Len(p) + 1) : SubSeq(s, i, i + Len(p) - 1) = p

\* the patterns callers pass to invalidate(); "" stands for an absent pattern (`!pattern`)
Patterns == {"", "DB_*", "*_KEY", "B_H", "_", "*", "KEY*", "*DB_"}

\* mutant: the prefix and suffix forms are matched anywhere in the key
PatternMatches_Anywhere(pattern, key) ==
  IF EndsWith(pattern, "*") THEN Includes(key, SubSeq(pattern, 1, Len(pattern) - 1))
  ELSE IF StartsWith(pattern, "*") THEN Includes(key, SubSeq(pattern, 2, Len(pattern)))
  ELSE Includes(key, pattern)

\* invalidate(pattern): the keys of the cache the pattern selects
PatternMatches(pattern, key) ==
  IF EndsWith(pattern, "*") THEN StartsWith(key, SubSeq(pattern, 1, Len(pattern) - 1))
  ELSE IF StartsWith(pattern, "*") THEN EndsWith(key, SubSeq(pattern, 2, Len(pattern)))
  ELSE Includes(key, pattern)

\* envCache.invalidate(pattern): without a pattern both maps are cleared; with one,
\* delete(key) runs for every matching key of Array.from(this.cache.keys())
Invalidate(pattern) ==
  /\ IF pattern = ""
     THEN /\ cache' = EmptyMap
          /\ inFlight' = EmptyMap
     ELSE LET hit == {k \in DOMAIN cache : PatternMatches(pattern, k)}
          IN /\ cache' = MapDeleteAll(cache, hit)
             /\ inFlight' = MapDeleteAll(inFlight, hit)
  /\ UNCHANGED <<now, pending, started, callers>>

\* mutant: the in-flight map is not consulted
HasInFlight_Ignored(m, key) == FALSE

\* getOrCompute: `const existing = this.inFlight.get(key); if (existing) return existing;`
HasInFlight(m, key) == key \in DOMAIN m

\* mutant: the rejection handler leaves the in-flight entry behind
InFlightAfterFailure_Kept(m, key) == m

\* the rejection handler of getOrCompute: `this.inFlight.delete(key); throw error`
InFlightAfterFailure(m, key) == MapDelete(m, key)

\* envCache.getOrCompute(key, resolver, ttl) called by c, up to its first suspension
GetOrCompute(c, key, ttl) ==
  /\ callers[c].st # "waiting"
  /\ LET cached == CacheGet(cache, key, ttl, now)
         call == [st |-> "done", serial |-> 0, result |-> cached]
     IN /\ cache' = CacheAfterGet(cache, key, ttl, now)
        /\ \/ \* cache hit
              /\ cached # Undefined
              /\ callers' = [callers EXCEPT ![c] = call]
              /\ UNCHANGED <<inFlight, pending, started>>
           \/ \* a computation is in flight: return its promise
              /\ cached = Undefined
              /\ HasInFlight(inFlight, key)
              /\ callers' = [callers EXCEPT ![c] =
                    [call EXCEPT !.st = "waiting", !.serial = inFlight[key]]]
              /\ UNCHANGED <<inFlight, pending, started>>
           \/ \* resolver() is invoked and returns a value or a promise
              /\ cached = Undefined
              /\ ~HasInFlight(inFlight, key)
              /\ started < MaxInvocations
              /\ started' = started + 1
              /\ pending' = MapSet(pending, started + 1, [key |-> key, ttl |-> ttl])
              /\ inFlight' = MapSet(inFlight, key, started + 1)
              /\ callers' = [callers EXCEPT ![c] =
                    [call EXCEPT !.st = "waiting", !.serial = started + 1]]
           \/ \* resolver() is invoked and throws synchronously: nothing is registered
              /\ cached = Undefined
              /\ ~HasInFlight(inFlight, key)
              /\ started < MaxInvocations
              /\ started' = started + 1
              /\ callers' = [callers EXCEPT ![c] =
                    [call EXCEPT !.result = "rejected"]]
              /\ UNCHANGED <<inFlight, pending>>
  /\ UNCHANGED now

\* every caller awaiting promise s receives its outcome
Deliver(s, result) ==
  [c \in Callers |->
     IF callers[c].st = "waiting" /\ callers[c].serial = s
     THEN [st |-> "done", serial |-> 0, result |-> result]
     ELSE callers[c]]

\* the fulfilment handler of getOrCompute: set, inFlight.delete, return value
SettleOk(s, value) ==
  /\ s \in DOMAIN pending
  /\ cache' = CacheSet(cache, pending[s].key, value, pending[s].ttl, now)
  /\ inFlight' = MapDelete(inFlight, pending[s].key)
  /\ pending' = MapDelete(pending, s)
  /\ callers' = Deliver(s, value)
  /\ UNCHANGED <<now, started>>

\* the rejection handler of getOrCompute: inFlight.delete, rethrow
SettleFail(s) ==
  /\ s \in DOMAIN pending
  /\ inFlight' = InFlightAfterFailure(inFlight, pending[s].key)
  /\ pending' = MapDelete(pending, s)
  /\ callers' = Deliver(s, "rejected")
  /\ UNCHANGED <<now, cache, started>>

Serials == 1..MaxInvocations

\* history of failure and retry, kept for the getOrCompute-only runs
HistAfterCall(key) ==
  hist' = [hist EXCEPT ![key] =
             IF @ = "failed" THEN (IF started' > started THEN "retried" ELSE "none") ELSE @]

InitConfIdle ==
  /\ env = EmptyMap
  /\ out = [op |-> "none"]

\* no start-up has run: nothing was passed in, no .env file, no provider built
InitSourcesIdle ==
  /\ launch = [mcp |-> EmptyMap, system |-> EmptyMap]
  /\ dotenvFile = [state |-> "missing", vars |-> EmptyMap]
  /\ envProvider = [kind |-> "none"]

\* no file is read: no call of the reader or of the assembler is in progress
InitReaderIdle ==
  /\ fs = EmptyMap
  /\ toolConfig = [readFile |-> [enabled |-> TRUE]]
  /\ batch = [state |-> "none"]
  /\ asm = [state |-> "idle"]
  /\ readLog = <<>>

\* the server has not started and no validation was requested
InitServerIdle ==
  /\ startup = [pc |-> "none", console |-> <<>>, exit |-> "none"]
  /\ activeSessions = EmptyMap
  /\ sessionObjects = <<>>
  /\ memoryStore = EmptyMap
  /\ ops = <<>>

InitRestIdle == InitSourcesIdle /\ InitReaderIdle /\ InitServerIdle

Init == InitCache /\ InitConfIdle /\ InitRestIdle

\* the cache under every operation of its interface
Next ==
  \/ Tick /\ UNCHANGED <<hist, env, out, restVars>>
  \/ \E c \in Callers, k \in Keys, t \in TTLArgs :
        Get(c, k, t) /\ UNCHANGED <<hist, env, out, restVars>>
  \/ \E c \in Callers, k \in Keys, t \in TTLArgs :
        GetOrCompute(c, k, t) /\ UNCHANGED <<hist, env, out, restVars>>
  \/ \E s \in Serials, v \in Values \cup {Undefined} :
        SettleOk(s, v) /\ UNCHANGED <<hist, env, out, restVars>>
  \/ \E s \in Serials : SettleFail(s) /\ UNCHANGED <<hist, env, out, restVars>>
  \/ Sweep /\ UNCHANGED <<hist, env, out, restVars>>
  \/ \E k \in Keys, v \in Values \cup {Undefined}, t \in TTLArgs :
        Set(k, v, t) /\ UNCHANGED <<hist, env, out, restVars>>
  \/ \E k \in Keys : Delete(k) /\ UNCHANGED <<hist, env, out, restVars>>
  \/ \E p \in Patterns : Invalidate(p) /\ UNCHANGED <<hist, env, out, restVars>>
  \/ Clear /\ UNCHANGED <<hist, env, out, restVars>>

Spec == Init /\ [][Next]_vars

\* the cache used through getOrCompute, get and sweep only, with the history of
\* failure and retry kept
NextGoC ==
  \/ Tick /\ UNCHANGED <<hist, env, out, restVars>>
  \/ \E c \in Callers, k \in Keys, t \in TTLArgs :
        Get(c, k, t) /\ UNCHANGED <<hist, env, out, restVars>>
  \/ \E c \in Callers, k \in Keys, t \in TTLArgs :
        GetOrCompute(c, k, t) /\ HistAfterCall(k) /\ UNCHANGED <<env, out, restVars>>
  \/ \E s \in Serials, v \in Values \cup {Undefined} :
        /\ SettleOk(s, v)
        /\ hist' = [hist EXCEPT ![pending[s].key] = "none"]
        /\ UNCHANGED <<env, out, restVars>>
  \/ \E s \in Serials :
        /\ SettleFail(s)
        /\ hist' = [hist EXCEPT ![pending[s].key] = "failed"]
        /\ UNCHANGED <<env, out, restVars>>
  \/ Sweep /\ UNCHANGED <<hist, env, out, restVars>>

SpecGoC == Init /\ [][NextGoC]_vars

(***************************************************************************)
(* Claims about the cache                                                  *)
(***************************************************************************)
PendingFor(k) == {s \in DOMAIN pending : pending[s].key = k}
Waiting(c) == callers[c].st = "waiting"

\* C1: callers of getOrCompute that overlap on one uncached key share one resolver
\* invocation - no key ever has two computations, every waiting caller awaits the
\* computation registered for its key - and when it settles each of them receives
\* the same value.
C1_SingleInvocationSharedResult ==
  /\ [](\A k \in Keys : Cardinality(PendingFor(k)) <= 1)
  /\ [](\A c \in Callers : Waiting(c) =>
          /\ callers[c].serial \in DOMAIN pending
          /\ pending[callers[c].serial].key \in DOMAIN inFlight
          /\ inFlight[pending[callers[c].serial].key] = callers[c].serial)
  /\ [][\A s \in Serials, v \in Values \cup {Undefined} :
          SettleOk(s, v) =>
            \A c \in Callers :
              (Waiting(c) /\ pending[callers[c].serial].key = pending[s].key)
                => (callers'[c].st = "done" /\ callers'[c].result = v)]_vars

\* two callers are awaiting the one computation that was started
W_C1 ==
  /\ started = 1
  /\ \A c \in Callers : Waiting(c) /\ callers[c].serial = 1

\* C2: at most one resolver computation is in flight for any key, whatever the
\* interleaving of get, set, delete, invalidate, clear and getOrCompute.
C2_AtMostOneInFlightPerKey == \A k \in Keys : Cardinality(PendingFor(k)) <= 1

\* C3: a finished computation leaves no in-flight entry, on success and on failure;
\* after a failure nothing is cached for the key and the next getOrCompute for it
\* invokes the resolver again.
C3_InFlightRemovedAndRetry ==
  /\ [](\A k \in DOMAIN inFlight : inFlight[k] \in DOMAIN pending)
  /\ [](\A k \in Keys : hist[k] = "failed" =>
          /\ k \notin DOMAIN inFlight
          /\ (k \in DOMAIN cache => cache[k].value = Undefined))
  /\ [][\A s \in Serials :
          (SettleFail(s) \/ \E v \in Values \cup {Undefined} : SettleOk(s, v))
             => pending[s].key \notin DOMAIN inFlight']_vars
  /\ [][\A s \in Serials : SettleFail(s) => cache' = cache]_vars
  /\ [][\A c \in Callers, k \in Keys, t \in TTLArgs :
          (GetOrCompute(c, k, t) /\ hist[k] = "failed") => started' = started + 1]_vars

\* a key whose computation failed has had its resolver invoked again
W_C3 == \E k \in Keys : hist[k] = "retried"

\* the read of key by c (get, or the cache check of getOrCompute) handed back value v
Served(c, v) ==
  /\ callers'[c].st = "done"
  /\ callers'[c].result = v
  /\ started' = started

Read(c, k, t) == Get(c, k, t) \/ GetOrCompute(c, k, t)

\* C4 as stated: a value stored with time-to-live T is returned by every read made
\* before T has elapsed and by no read made after T has elapsed.
C4_VisibleExactlyForStoredTTL ==
  [][\A c \in Callers, k \in Keys, t \in TTLArgs :
       (Read(c, k, t) /\ k \in DOMAIN cache /\ cache[k].value # Undefined) =>
          /\ (now - cache[k].timestamp < cache[k].ttl => Served(c, cache[k].value))
          /\ (now - cache[k].timestamp > cache[k].ttl => ~Served(c, cache[k].value))]_vars

\* C4 amended: freshness is judged against the time-to-live in effect for the read,
\* the read's own ttl argument when it passes one and the stored T otherwise: a read
\* at age <= that ttl returns the stored value and keeps the entry, a read at a greater
\* age does not return it and drops the entry; sweep keeps exactly the entries whose
\* age is <= their stored T, so the boundary age = ttl is fresh on every path.
C4_VisibleExactlyForEffectiveTTL ==
  /\ [][\A c \in Callers, k \in Keys, t \in TTLArgs :
         (Read(c, k, t) /\ k \in DOMAIN cache /\ cache[k].value # Undefined) =>
            LET T == IF t = NoTTL THEN cache[k].ttl ELSE t
                age == now - cache[k].timestamp
            IN /\ (age <= T => (Served(c, cache[k].value) /\ k \in DOMAIN cache'
                                  /\ cache'[k] = cache[k]))
               /\ (age > T => (~Served(c, cache[k].value) /\ k \notin DOMAIN cache'))]_vars
  /\ [][Sweep => \A k \in DOMAIN cache :
         (k \in DOMAIN cache') <=> (now - cache[k].timestamp <= cache[k].ttl)]_vars

\* a caller holds the value of an entry written by set whose age has reached its ttl
W_C4 ==
  /\ started = 0
  /\ \E c \in Callers, k \in DOMAIN cache :
       /\ callers[c].st = "done"
       /\ callers[c].result = cache[k].value
       /\ cache[k].value # Undefined
       /\ now - cache[k].timestamp = cache[k].ttl

(***************************************************************************)
(* Part II: provider configuration resolution                              *)
(***************************************************************************)
Null == "null"
LowerLetters == "abcdefghijklmnopqrstuvwxyz"
UpperLetters == "ABCDEFGHIJKLMNOPQRSTUVWXYZ"
DecimalDigits == "0123456789"
CharAt(s, i) == SubSeq(s, i, i)

\* position of the one-character string ch in alphabet, 0 when it is not there
IndexIn(alphabet, ch) ==
  IF \E i \in 1..Len(alphabet) : CharAt(alphabet, i) = ch
  THEN CHOOSE i \in 1..Len(alphabet) : CharAt(alphabet, i) = ch
  ELSE 0

RECURSIVE MapChars(_, _, _)
MapChars(s, from, to) ==
  IF s = "" THEN ""
  ELSE LET i == IndexIn(from, CharAt(s, 1))
       IN (IF i = 0 THEN CharAt(s, 1) ELSE CharAt(to, i))
            \o MapChars(SubSeq(s, 2, Len(s)), from, to)

\* String.prototype.toUpperCase / toLowerCase
ToUpperCase(s) == MapChars(s, LowerLetters, UpperLetters)
ToLowerCase(s) == MapChars(s, UpperLetters, LowerLetters)

\* String.prototype.trim
RECURSIVE TrimStart(_)
TrimStart(s) == IF s # "" /\ CharAt(s, 1) = " " THEN TrimStart(SubSeq(s, 2, Len(s))) ELSE s
RECURSIVE TrimEnd(_)
TrimEnd(s) ==
  IF s # "" /\ CharAt(s, Len(s)) = " " THEN TrimEnd(SubSeq(s, 1, Len(s) - 1)) ELSE s
Trim(s) == TrimEnd(TrimStart(s))

\* `value?.trim()` is truthy
HasText(v) == v # Undefined /\ Trim(v) # ""

\* String.prototype.split(","): the list of pieces
RECURSIVE SplitComma(_)
SplitComma(s) ==
  IF ~Includes(s, ",") THEN <<s>>
  ELSE LET i == CHOOSE j \in 1..Len(s) :
                  CharAt(s, j) = "," /\ \A h \in 1..(j - 1) : CharAt(s, h) # ","
       IN <<SubSeq(s, 1, i - 1)>> \o SplitComma(SubSeq(s, i + 1, Len(s)))

\* numbers are held in thousandths: Number("0.5") is 500
Scale == 1000
NaN == [isNaN |-> TRUE, val |-> 0]
Num(v) == [isNaN |-> FALSE, val |-> v]

IsDigits(s) == s # "" /\ \A i \in 1..Len(s) : IndexIn(DecimalDigits, CharAt(s, i)) # 0

RECURSIVE DigitsValue(_)
DigitsValue(s) ==
  IF s = "" THEN 0
  ELSE 10 * DigitsValue(SubSeq(s, 1, Len(s) - 1)) + (IndexIn(DecimalDigits, CharAt(s, Len(s))) - 1)

\* the fraction digits read as thousandths (digits past the third are dropped)
FractionValue(s) == DigitsValue(SubSeq(s \o "000", 1, 3))

\* Number(s) for an unsigned decimal literal: digits, digits.digits, digits. or .digits
UnsignedNumber(s) ==
  IF IsDigits(s) THEN Num(Scale * DigitsValue(s))
  ELSE IF ~Includes(s, ".") THEN NaN
  ELSE LET i == CHOOSE j \in 1..Len(s) : CharAt(s, j) = "."
           int == SubSeq(s, 1, i - 1)
           frac == SubSeq(s, i + 1, Len(s))
       IN IF (int = "" \/ IsDigits(int)) /\ (frac = "" \/ IsDigits(frac)) /\ (int \o frac) # ""
          THEN Num(Scale * DigitsValue(int) + FractionValue(frac))
          ELSE NaN

\* Number(s) of a trimmed, non-empty string written as a signed decimal literal;
\* anything else (letters, a second sign or point) is NaN
ToNumber(s) ==
  IF s = "" THEN Num(0)
  ELSE IF CharAt(s, 1) = "-"
       THEN LET u == UnsignedNumber(SubSeq(s, 2, Len(s)))
            IN IF u.isNaN THEN NaN ELSE Num(0 - u.val)
  ELSE IF CharAt(s, 1) = "+" THEN UnsignedNumber(SubSeq(s, 2, Len(s)))
  ELSE UnsignedNumber(s)

\* Math.floor of a positive number, as a whole number
Floor(v) == v \div Scale

\* results of the configuration functions: a returned value, null, or a thrown StandardError
Ok(v) == [kind |-> "ok", val |-> v]
ReturnsNull == [kind |-> "null"]
Throw(code, provider, envVar) ==
  [kind |-> "throw", category |-> "configuration", code |-> code,
   provider |-> provider, hint |-> envVar]
NoNumber == -1

\* the providers of ai-providers/index.js, in enumeration order
SUPPORTED_PROVIDERS == <<"anthropic", "openai", "google">>
Providers == {SUPPORTED_PROVIDERS[i] : i \in DOMAIN SUPPORTED_PROVIDERS}
PROVIDER_API_KEYS(providerName) ==
  IF providerName \in Providers THEN ToUpperCase(providerName) \o "_API_KEY" ELSE Undefined
providerSupportsFeature(providerName) == providerName = "openai"

\* process.env[key]
EnvGet(key) == IF key \in DOMAIN env THEN env[key] ELSE Undefined

\* resolveEnvVariableCached(key): the value read through envCache under "env_" + key.
\* process.env does not change after start-up, so the entry, written from
\* process.env[key] by this function alone, holds process.env[key].
resolveEnvVariableCached(key) == EnvGet(key)

getApiKey(providerName) ==
  LET Resolve(apiKey) == IF ~HasText(apiKey) THEN Null ELSE Trim(apiKey)
  IN IF PROVIDER_API_KEYS(providerName) = Undefined THEN Null
     ELSE Resolve(resolveEnvVariableCached(PROVIDER_API_KEYS(providerName)))

getModel(providerName) ==
  LET Resolve(prefix, userModel, defaultModel) ==
        IF HasText(userModel) THEN Ok(Trim(userModel))
        ELSE IF HasText(defaultModel) THEN Ok(Trim(defaultModel))
        ELSE Throw("MODEL_NOT_SET", providerName,
                   prefix \o "_MODEL or " \o prefix \o "_MODEL_DEFAULT")
      Tiers(prefix) ==
        Resolve(prefix, resolveEnvVariableCached(prefix \o "_MODEL"),
                resolveEnvVariableCached(prefix \o "_MODEL_DEFAULT"))
  IN Tiers(ToUpperCase(providerName))

\* Number(value.trim()) of a tier that holds text; a tier without text gives no number
NumberOf(v) == IF HasText(v) THEN ToNumber(Trim(v)) ELSE NaN

\* mutant: any number is taken as a temperature
TemperatureInRange_AnyNumber(n) == ~n.isNaN

\* `!isNaN(temp) && temp >= 0 && temp <= 2`
TemperatureInRange(n) == ~n.isNaN /\ n.val >= 0 /\ n.val <= 2 * Scale

getTemperature(providerName) ==
  LET FirstValid(prefix, providerValue, globalValue, defaultValue) ==
        IF TemperatureInRange(providerValue) THEN Ok(providerValue.val)
        ELSE IF TemperatureInRange(globalValue) THEN Ok(globalValue.val)
        ELSE IF TemperatureInRange(defaultValue) THEN Ok(defaultValue.val)
        ELSE Throw("TEMPERATURE_NOT_SET", providerName,
                   prefix \o "_TEMPERATURE, LLM_TEMPERATURE, or LLM_TEMPERATURE_DEFAULT")
      Tiers(prefix) ==
        FirstValid(prefix, NumberOf(resolveEnvVariableCached(prefix \o "_TEMPERATURE")),
                   NumberOf(resolveEnvVariableCached("LLM_TEMPERATURE")),
                   NumberOf(resolveEnvVariableCached("LLM_TEMPERATURE_DEFAULT")))
  IN Tiers(ToUpperCase(providerName))

\* `!isNaN(tokens) && tokens > 0`
IsPositive(n) == ~n.isNaN /\ n.val > 0

getMaxTokens(providerName) ==
  LET FirstValid(prefix, providerValue, globalValue, defaultValue) ==
        IF IsPositive(providerValue) THEN Ok(Floor(providerValue.val))
        ELSE IF IsPositive(globalValue) THEN Ok(Floor(globalValue.val))
        ELSE IF IsPositive(defaultValue) THEN Ok(Floor(defaultValue.val))
        ELSE Throw("MAX_TOKENS_NOT_SET", providerName,
                   prefix \o "_MAX_TOKENS, LLM_MAX_TOKENS, or LLM_MAX_TOKENS_DEFAULT")
      Tiers(prefix) ==
        FirstValid(prefix, NumberOf(resolveEnvVariableCached(prefix \o "_MAX_TOKENS")),
                   NumberOf(resolveEnvVariableCached("LLM_MAX_TOKENS")),
                   NumberOf(resolveEnvVariableCached("LLM_MAX_TOKENS_DEFAULT")))
  IN Tiers(ToUpperCase(providerName))

getTimeout(providerName) ==
  LET FirstValid(prefix, providerValue, globalValue, defaultValue) ==
        IF IsPositive(providerValue) THEN Ok(Floor(providerValue.val))
        ELSE IF IsPositive(globalValue) THEN Ok(Floor(globalValue.val))
        ELSE IF IsPositive(defaultValue) THEN Ok(Floor(defaultValue.val))
        ELSE Throw("TIMEOUT_NOT_SET", providerName,
                   prefix \o "_TIMEOUT, LLM_TIMEOUT, or LLM_TIMEOUT_DEFAULT")
      Tiers(prefix) ==
        FirstValid(prefix, NumberOf(resolveEnvVariableCached(prefix \o "_TIMEOUT")),
                   NumberOf(resolveEnvVariableCached("LLM_TIMEOUT")),
                   NumberOf(resolveEnvVariableCached("LLM_TIMEOUT_DEFAULT")))
  IN Tiers(ToUpperCase(providerName))

getBaseUrl(providerName) ==
  LET Resolve(baseUrl) == IF HasText(baseUrl) THEN Trim(baseUrl) ELSE Undefined
  IN Resolve(resolveEnvVariableCached(ToUpperCase(providerName) \o "_BASE_URL"))

getDefaultProvider ==
  LET Resolve(provider) ==
        IF ~HasText(provider)
        THEN Throw("DEFAULT_PROVIDER_NOT_SET", Undefined, "DEFAULT_LLM_PROVIDER")
        ELSE Ok(Trim(provider))
  IN Resolve(resolveEnvVariableCached("DEFAULT_LLM_PROVIDER"))

\* the separators [-_] of the placeholder patterns
IsSep(ch) == ch \in {"-", "_"}

\* /^your[-_].*[-_]key[-_]here$/i
MatchesYourKeyHere(apiKey) ==
  LET Matches(l, n) ==
        /\ n >= 14
        /\ SubSeq(l, 1, 4) = "your" /\ IsSep(CharAt(l, 5))
        /\ IsSep(CharAt(l, n - 8)) /\ SubSeq(l, n - 7, n - 5) = "key"
        /\ IsSep(CharAt(l, n - 4)) /\ SubSeq(l, n - 3, n) = "here"
  IN Matches(ToLowerCase(apiKey), Len(apiKey))

\* /^your[-_].*[-_]here$/i
MatchesYourHere(apiKey) ==
  LET Matches(l, n) ==
        /\ n >= 10
        /\ SubSeq(l, 1, 4) = "your" /\ IsSep(CharAt(l, 5))
        /\ IsSep(CharAt(l, n - 4)) /\ SubSeq(l, n - 3, n) = "here"
  IN Matches(ToLowerCase(apiKey), Len(apiKey))

\* the placeholderPatterns of validateApiKey
MatchesPlaceholderPattern(apiKey) ==
  LET Matches(l) ==
        \/ StartsWith(apiKey, "sk-ant-your-")
        \/ MatchesYourKeyHere(apiKey)
        \/ MatchesYourHere(apiKey)
        \/ StartsWith(l, "placeholder")
        \/ StartsWith(l, "dummy")
        \/ (StartsWith(l, "test") /\ Includes(SubSeq(l, 5, Len(l)), "key"))
        \/ StartsWith(l, "example")
        \/ (StartsWith(l, "apikey") \/ StartsWith(l, "api_key") \/ StartsWith(l, "api-key"))
        \/ (StartsWith(l, "replaceme") \/ StartsWith(l, "replace_me")
              \/ StartsWith(l, "replace-me"))
  IN Matches(ToLowerCase(apiKey))

\* process.env.NODE_ENV === "test" || process.env.TEST_MODE === "true"
TestMode == EnvGet("NODE_ENV") = "test" \/ EnvGet("TEST_MODE") = "true"

validateApiKey(providerName, apiKey) ==
  IF apiKey = Null \/ apiKey = Undefined \/ Trim(apiKey) = "" THEN FALSE
  ELSE IF TestMode
       THEN /\ ~Includes(apiKey, "your_")
            /\ ~Includes(apiKey, "_here")
            /\ ~Includes(apiKey, "placeholder")
       ELSE ~MatchesPlaceholderPattern(apiKey)

isProviderConfigured(providerName) ==
  LET Validate(apiKey) ==
        IF apiKey # Null THEN validateApiKey(providerName, apiKey) ELSE FALSE
  IN Validate(getApiKey(providerName))

\* getConfiguredProviders(): one entry per provider in enumeration order; getModel is
\* asked only for a provider with a valid key, and its error ends the loop
RECURSIVE ConfiguredEntries(_)
ConfiguredEntries(names) ==
  IF names = <<>> THEN Ok(<<>>)
  ELSE LET Entry(name, hasApiKey, model) ==
             IF model.kind = "throw" THEN model
             ELSE Ok([name |-> name, model |-> model.val, hasApiKey |-> hasApiKey])
           Probe(name, hasApiKey) ==
             Entry(name, hasApiKey, IF hasApiKey THEN getModel(name) ELSE Ok(Null))
           Push(entry, rest) ==
             IF entry.kind = "throw" THEN entry
             ELSE IF rest.kind = "throw" THEN rest
             ELSE Ok(<<entry.val>> \o rest.val)
       IN Push(Probe(Head(names), isProviderConfigured(Head(names))),
               ConfiguredEntries(Tail(names)))

getConfiguredProviders == ConfiguredEntries(SUPPORTED_PROVIDERS)

\* `.filter((p) => p.hasApiKey).map((p) => p.name)`
RECURSIVE NamesWithApiKey(_)
NamesWithApiKey(list) ==
  IF list = <<>> THEN <<>>
  ELSE (IF Head(list).hasApiKey THEN <<Head(list).name>> ELSE <<>>)
         \o NamesWithApiKey(Tail(list))

\* `.split(",").map((p) => p.trim()).filter((p) => p.length > 0)`
RECURSIVE TrimmedNonEmpty(_)
TrimmedNonEmpty(pieces) ==
  IF pieces = <<>> THEN <<>>
  ELSE (IF Trim(Head(pieces)) # "" THEN <<Trim(Head(pieces))>> ELSE <<>>)
         \o TrimmedNonEmpty(Tail(pieces))

\* `providers.filter((p) => !SUPPORTED_PROVIDERS.includes(p))`
RECURSIVE Unsupported(_)
Unsupported(providers) ==
  IF providers = <<>> THEN <<>>
  ELSE (IF Head(providers) \notin Providers THEN <<Head(providers)>> ELSE <<>>)
         \o Unsupported(Tail(providers))

\* `configuredProviders.forEach(...)`: the configured providers other than the default
RECURSIVE Without(_, _)
Without(names, defaultProvider) ==
  IF names = <<>> THEN <<>>
  ELSE (IF Head(names) # defaultProvider THEN <<Head(names)>> ELSE <<>>)
         \o Without(Tail(names), defaultProvider)

getProviderPriority ==
  LET Parse(priority) ==
        IF HasText(priority) THEN TrimmedNonEmpty(SplitComma(priority)) ELSE <<>>
      \* a throw inside the try block leads to the second getConfiguredProviders()
      Fallback(defaultProvider, configured) ==
        IF configured.kind = "throw" THEN configured
        ELSE IF defaultProvider.kind = "ok"
             THEN Ok(<<defaultProvider.val>>
                       \o Without(NamesWithApiKey(configured.val), defaultProvider.val))
             ELSE Ok(NamesWithApiKey(configured.val))
      Decide(providers) ==
        IF providers # <<>>
        THEN IF Unsupported(providers) # <<>>
             THEN Throw("INVALID_PROVIDERS", Undefined, "PROVIDER_SELECTION_PRIORITY")
             ELSE Ok(providers)
        ELSE Fallback(getDefaultProvider, getConfiguredProviders)
  IN Decide(Parse(resolveEnvVariableCached("PROVIDER_SELECTION_PRIORITY")))

\* `for (const provider of providerPriority) if (isProviderConfigured(provider)) return provider`
RECURSIVE FirstConfigured(_)
FirstConfigured(list) ==
  IF list = <<>> THEN Null
  ELSE IF isProviderConfigured(Head(list)) THEN Head(list)
  ELSE FirstConfigured(Tail(list))

getBestAvailableProvider ==
  LET Walk(providerPriority) ==
        IF providerPriority.kind = "throw" THEN providerPriority
        ELSE Ok(FirstConfigured(providerPriority.val))
      Select(defaultProvider) ==
        IF defaultProvider.kind = "throw" THEN defaultProvider
        ELSE IF isProviderConfigured(defaultProvider.val) THEN Ok(defaultProvider.val)
        ELSE Walk(getProviderPriority)
  IN Select(getDefaultProvider)

\* the first valid of a value and its default, floored; NoNumber for null
getMaxCompletionTokens ==
  LET Pick(value, defaultValue) ==
        IF IsPositive(value) THEN Floor(value.val)
        ELSE IF IsPositive(defaultValue) THEN Floor(defaultValue.val)
        ELSE NoNumber
  IN Pick(NumberOf(resolveEnvVariableCached("OPENAI_MAX_COMPLETION_TOKENS")),
          NumberOf(resolveEnvVariableCached("OPENAI_MAX_COMPLETION_TOKENS_DEFAULT")))

VerbosityValues == {"low", "medium", "high"}
ReasoningEffortValues == {"minimal", "low", "medium", "high"}

\* a value that holds text decides alone: the default is read only when it does not
EnumSetting(value, defaultValue, allowed) ==
  IF HasText(value)
  THEN (IF Trim(value) \in allowed THEN Trim(value) ELSE Null)
  ELSE IF HasText(defaultValue)
       THEN (IF Trim(defaultValue) \in allowed THEN Trim(defaultValue) ELSE Null)
       ELSE Null

getVerbosity ==
  EnumSetting(resolveEnvVariableCached("OPENAI_VERBOSITY"),
              resolveEnvVariableCached("OPENAI_VERBOSITY_DEFAULT"), VerbosityValues)

getReasoningEffort ==
  EnumSetting(resolveEnvVariableCached("OPENAI_REASONING_EFFORT"),
              resolveEnvVariableCached("OPENAI_REASONING_EFFORT_DEFAULT"),
              ReasoningEffortValues)

\* a ProviderConfiguration; temperature in thousandths, absent optional fields as
\* Undefined / NoNumber
ProviderConfiguration(name, apiKey, model, temperature, maxTokens, timeout, hasModel) ==
  [name |-> name, apiKey |-> apiKey, model |-> model, temperature |-> temperature,
   maxTokens |-> maxTokens, timeout |-> timeout, hasApiKey |-> apiKey # Null,
   hasModel |-> hasModel, baseUrl |-> Undefined,
   maxCompletionTokens |-> NoNumber, verbosity |-> Undefined, reasoningEffort |-> Undefined]

\* the literals of the configuration built without resolution: 0.7, 2000, 30000
FallbackTemperature == 700
FallbackMaxTokens == 2000
FallbackTimeout == 30000
MinimalConfig(providerName, apiKey) ==
  ProviderConfiguration(providerName, apiKey, "", FallbackTemperature, FallbackMaxTokens,
                        FallbackTimeout, FALSE)

\* the object literal { apiKey, model: getModel(), temperature: getTemperature(),
\* maxTokens: getMaxTokens(), timeout: getTimeout(), baseUrl: getBaseUrl() }: the
\* first getter that throws decides
RequiredFields(providerName) ==
  LET Build(model, temperature, maxTokens, timeout) ==
        IF model.kind = "throw" THEN model
        ELSE IF temperature.kind = "throw" THEN temperature
        ELSE IF maxTokens.kind = "throw" THEN maxTokens
        ELSE IF timeout.kind = "throw" THEN timeout
        ELSE Ok([ProviderConfiguration(providerName, getApiKey(providerName), model.val,
                                       temperature.val, maxTokens.val, timeout.val, TRUE)
                   EXCEPT !.baseUrl = getBaseUrl(providerName)])
  IN Build(getModel(providerName), getTemperature(providerName),
           getMaxTokens(providerName), getTimeout(providerName))

\* UnifiedConfigManager.loadProviderConfiguration
loadProviderConfiguration(providerName) ==
  LET AddGPT5(config, verbosity, reasoningEffort) ==
        Ok([config.val EXCEPT
              !.maxCompletionTokens = getMaxCompletionTokens,
              !.verbosity = IF verbosity # Null THEN verbosity ELSE Undefined,
              !.reasoningEffort =
                 IF reasoningEffort # Null THEN reasoningEffort ELSE Undefined])
      Finish(config) ==
        IF config.kind = "throw" THEN config
        ELSE IF providerSupportsFeature(providerName)
             THEN AddGPT5(config, getVerbosity, getReasoningEffort)
             ELSE config
  IN IF getApiKey(providerName) = Null THEN Ok(MinimalConfig(providerName, Null))
     ELSE Finish(RequiredFields(providerName))

\* process.env.CONFIG_STRICT === "1"
ConfigStrict == EnvGet("CONFIG_STRICT") = "1"

\* the loop of UnifiedConfigManager.initialize over the providers: a provider whose
\* configuration fails to load ends the loop with its error in strict mode and is
\* given the minimal configuration otherwise
RECURSIVE LoadAll(_)
LoadAll(names) ==
  IF names = <<>> THEN Ok(<<>>)
  ELSE LET Entry(config) ==
             IF config.kind = "ok" \/ ConfigStrict THEN config
             ELSE Ok(MinimalConfig(Head(names), getApiKey(Head(names))))
           Push(entry, rest) ==
             IF entry.kind = "throw" THEN entry
             ELSE IF rest.kind = "throw" THEN rest
             ELSE Ok(<<entry.val>> \o rest.val)
       IN Push(Entry(loadProviderConfiguration(Head(names))), LoadAll(Tail(names)))

\* UnifiedConfigManager.initialize: the providerConfigs it builds, in provider
\* order, or the error it throws. They are rebuilt from the same process.env on
\* every call here, which is what `initialized` saves.
initialize == LoadAll(SUPPORTED_PROVIDERS)

\* `this.providerConfigs.get(providerName) || null`
ConfigOf(configs, providerName) ==
  IF \E i \in DOMAIN configs : configs[i].name = providerName
  THEN Ok(configs[CHOOSE i \in DOMAIN configs : configs[i].name = providerName])
  ELSE ReturnsNull

\* UnifiedConfigManager.isEnabled
isEnabled == EnvGet("CONFIG_UNIFIED") \in {"1", "true"}

\* UnifiedConfigManager.getProviderConfiguration
getProviderConfiguration(providerName) ==
  LET Lookup(configs) ==
        IF configs.kind = "throw" THEN configs ELSE ConfigOf(configs.val, providerName)
  IN IF ~isEnabled THEN ReturnsNull ELSE Lookup(initialize)

getUnifiedProviderConfig(providerName) ==
  LET \* legacy: try { ... } catch { return null }
      Legacy(fields) == IF fields.kind = "throw" THEN ReturnsNull ELSE fields
      Decide(unifiedConfig) ==
        IF unifiedConfig.kind # "null" THEN unifiedConfig
        ELSE IF getApiKey(providerName) = Null THEN ReturnsNull
        ELSE Legacy(RequiredFields(providerName))
  IN Decide(getProviderConfiguration(providerName))

\* getProviderConfig: the six values, or the six nulls of its catch block
getProviderConfig(providerName) ==
  LET Result(fields) ==
        IF fields.kind = "throw"
        THEN Ok([apiKey |-> Null, model |-> Null, temperature |-> NoNumber,
                 maxTokens |-> NoNumber, baseUrl |-> Null, timeout |-> NoNumber])
        ELSE Ok([apiKey |-> fields.val.apiKey, model |-> fields.val.model,
                 temperature |-> fields.val.temperature,
                 maxTokens |-> fields.val.maxTokens,
                 baseUrl |-> IF fields.val.baseUrl = Undefined THEN Null
                             ELSE fields.val.baseUrl,
                 timeout |-> fields.val.timeout])
  IN Result(RequiredFields(providerName))

\* getProviderConfigWithOverrides(providerName, {}): no override is passed, so
\* every `??` and `||` takes the configuration's own value
getProviderConfigWithOverrides(providerName) ==
  LET Result(c) ==
        Ok([providerName |-> c.name, apiKey |-> c.apiKey, model |-> c.model,
            temperature |-> c.temperature, maxTokens |-> c.maxTokens,
            timeout |-> c.timeout, baseUrl |-> c.baseUrl,
            maxCompletionTokens |-> c.maxCompletionTokens,
            verbosity |-> c.verbosity, reasoningEffort |-> c.reasoningEffort])
      Legacy(fields) == IF fields.kind = "throw" THEN fields ELSE Result(fields.val)
      Decide(unifiedConfig) ==
        IF unifiedConfig.kind = "throw" THEN unifiedConfig
        ELSE IF unifiedConfig.kind = "ok" THEN Result(unifiedConfig.val)
        ELSE Legacy(RequiredFields(providerName))
  IN Decide(getUnifiedProviderConfig(providerName))

(***************************************************************************)
(* The configuration functions called under sampled environments          *)
(***************************************************************************)
TemperatureSamples == {Undefined, " ", "abc", "2.5", "-1", "0.5", " 0.9 ", "2"}

\* environments for the temperature chain
TemperatureEnvs ==
  [OPENAI_TEMPERATURE : TemperatureSamples,
   LLM_TEMPERATURE : TemperatureSamples,
   LLM_TEMPERATURE_DEFAULT : TemperatureSamples]

\* environments for the required fields of a provider, unified manager on or off
RequiredFieldEnvs ==
  [CONFIG_UNIFIED : {Undefined, "1", "true"},
   CONFIG_STRICT : {Undefined, "1"},
   OPENAI_API_KEY : {Undefined, "sk-abc123realkey"},
   ANTHROPIC_API_KEY : {Undefined, " sk-ant-api03-k "},
   OPENAI_MODEL : {Undefined, "gpt-4o"},
   OPENAI_MODEL_DEFAULT : {" ", "gpt-4o-mini"},
   ANTHROPIC_MODEL_DEFAULT : {"claude-sonnet"},
   LLM_TEMPERATURE : {Undefined, "0"},
   LLM_MAX_TOKENS : {"0", "4096.7"},
   LLM_TIMEOUT_DEFAULT : {Undefined, "60000"},
   OPENAI_VERBOSITY : {"high"}]

\* environments for provider selection
SelectionEnvs ==
  [DEFAULT_LLM_PROVIDER : {Undefined, "openai", " google ", "mistral"},
   PROVIDER_SELECTION_PRIORITY :
     {Undefined, "google,openai", "openai, anthropic", " , ", "mistral,openai"},
   OPENAI_API_KEY :
     {Undefined, "sk-abc123realkey", "your_openai_api_key_here", "sk-placeholder"},
   GOOGLE_API_KEY : {Undefined, "AIza-k1"},
   ANTHROPIC_API_KEY : {Undefined, "sk-ant-api03-k"},
   OPENAI_MODEL : {Undefined, "gpt-4o"},
   GOOGLE_MODEL : {"gemini-pro"},
   ANTHROPIC_MODEL : {"claude-sonnet"}]

ApiKeySamples ==
  {Undefined, "sk-abc123realkey", "your_openai_api_key_here", "your-openai-key-here",
   "sk-placeholder", "my_dummy_key", "dummy", "sk-your_key", "key_here", "test-key"}

\* environments for API-key validation, in and out of test mode
ApiKeyEnvs ==
  [OPENAI_API_KEY : ApiKeySamples,
   NODE_ENV : {Undefined, "test", "production"},
   TEST_MODE : {Undefined, "true", "1"}]

InitConfig ==
  /\ InitCache
  /\ InitRestIdle
  /\ env \in TemperatureEnvs \cup RequiredFieldEnvs \cup SelectionEnvs \cup ApiKeyEnvs
  /\ out = [op |-> "none"]

\* what the caller holds after a call
Returned(op, arg, res) == [op |-> op, arg |-> arg, res |-> res]

\* A call is made once the result of the previous one has been taken.
CallGetApiKey(p) ==
  /\ out.op = "none"
  /\ out' = Returned("getApiKey", p, getApiKey(p))
  /\ UNCHANGED <<env, cacheVars, restVars>>

CallGetModel(p) ==
  /\ out.op = "none"
  /\ out' = Returned("getModel", p, getModel(p))
  /\ UNCHANGED <<env, cacheVars, restVars>>

CallGetTemperature(p) ==
  /\ out.op = "none"
  /\ out' = Returned("getTemperature", p, getTemperature(p))
  /\ UNCHANGED <<env, cacheVars, restVars>>

CallGetMaxTokens(p) ==
  /\ out.op = "none"
  /\ out' = Returned("getMaxTokens", p, getMaxTokens(p))
  /\ UNCHANGED <<env, cacheVars, restVars>>

CallGetTimeout(p) ==
  /\ out.op = "none"
  /\ out' = Returned("getTimeout", p, getTimeout(p))
  /\ UNCHANGED <<env, cacheVars, restVars>>

CallIsProviderConfigured(p) ==
  /\ out.op = "none"
  /\ out' = Returned("isProviderConfigured", p, isProviderConfigured(p))
  /\ UNCHANGED <<env, cacheVars, restVars>>

CallGetConfiguredProviders ==
  /\ out.op = "none"
  /\ out' = Returned("getConfiguredProviders", Undefined, getConfiguredProviders)
  /\ UNCHANGED <<env, cacheVars, restVars>>

CallGetProviderPriority ==
  /\ out.op = "none"
  /\ out' = Returned("getProviderPriority", Undefined, getProviderPriority)
  /\ UNCHANGED <<env, cacheVars, restVars>>

CallGetBestAvailableProvider ==
  /\ out.op = "none"
  /\ out' = Returned("getBestAvailableProvider", Undefined, getBestAvailableProvider)
  /\ UNCHANGED <<env, cacheVars, restVars>>

CallGetUnifiedProviderConfig(p) ==
  /\ out.op = "none"
  /\ out' = Returned("getUnifiedProviderConfig", p, getUnifiedProviderConfig(p))
  /\ UNCHANGED <<env, cacheVars, restVars>>

CallGetProviderConfig(p) ==
  /\ out.op = "none"
  /\ out' = Returned("getProviderConfig", p, getProviderConfig(p))
  /\ UNCHANGED <<env, cacheVars, restVars>>

CallGetProviderConfigWithOverrides(p) ==
  /\ out.op = "none"
  /\ out' = Returned("getProviderConfigWithOverrides", p, getProviderConfigWithOverrides(p))
  /\ UNCHANGED <<env, cacheVars, restVars>>

\* the caller takes the result
TakeResult ==
  /\ out.op # "none"
  /\ out' = [op |-> "none"]
  /\ UNCHANGED <<env, cacheVars, restVars>>

NextConfig ==
  \/ \E p \in Providers : CallGetApiKey(p)
  \/ \E p \in Providers : CallGetModel(p)
  \/ \E p \in Providers : CallGetTemperature(p)
  \/ \E p \in Providers : CallGetMaxTokens(p)
  \/ \E p \in Providers : CallGetTimeout(p)
  \/ \E p \in Providers : CallIsProviderConfigured(p)
  \/ CallGetConfiguredProviders
  \/ CallGetProviderPriority
  \/ CallGetBestAvailableProvider
  \/ \E p \in Providers : CallGetUnifiedProviderConfig(p)
  \/ \E p \in Providers : CallGetProviderConfig(p)
  \/ \E p \in Providers : CallGetProviderConfigWithOverrides(p)
  \/ TakeResult

SpecConfig == InitConfig /\ [][NextConfig]_vars

(***************************************************************************)
(* Claims about configuration resolution                                   *)
(***************************************************************************)
\* C5: getTemperature returns the value of the first of {PROVIDER}_TEMPERATURE,
\* LLM_TEMPERATURE, LLM_TEMPERATURE_DEFAULT that is non-empty after trimming, a number
\* and within [0, 2], skipping every tier that is not, and throws only when none is.
\* Worth(v) is what each sampled text is worth as a temperature, in thousandths.
C5_FirstValidTemperatureTier ==
  LET Worth(v) ==
        CASE v = "0.5" -> 500
          [] v = " 0.9 " -> 900
          [] v = "2" -> 2000
          [] v = "0" -> 0
          [] OTHER -> NoNumber
      Expected(tiers) ==
        IF Worth(tiers[1]) # NoNumber THEN Ok(Worth(tiers[1]))
        ELSE IF Worth(tiers[2]) # NoNumber THEN Ok(Worth(tiers[2]))
        ELSE IF Worth(tiers[3]) # NoNumber THEN Ok(Worth(tiers[3]))
        ELSE ReturnsNull
  IN \A p \in Providers :
       (out.op = "getTemperature" /\ out.arg = p) =>
         LET expected == Expected(<<EnvGet(ToUpperCase(p) \o "_TEMPERATURE"),
                                    EnvGet("LLM_TEMPERATURE"),
                                    EnvGet("LLM_TEMPERATURE_DEFAULT")>>)
         IN IF expected = ReturnsNull
            THEN out.res.kind = "throw" /\ out.res.code = "TEMPERATURE_NOT_SET"
            ELSE out.res = expected

\* the provider tier is out of range, the global tier is not a number, and the
\* default tier's 0.5 is returned
W_C5 ==
  /\ out.op = "getTemperature"
  /\ out.arg = "openai"
  /\ EnvGet("OPENAI_TEMPERATURE") = "2.5"
  /\ EnvGet("LLM_TEMPERATURE") = "abc"
  /\ EnvGet("LLM_TEMPERATURE_DEFAULT") = "0.5"
  /\ out.res = Ok(500)

\* C6: for a provider with an API key, no resolution of its configuration returns
\* a configuration in which a required field (model, temperature, maxTokens,
\* timeout) whose chain yields no valid value has been filled in
C6_NoSubstitutedRequiredField ==
  \A p \in Providers :
    (/\ out.op \in {"getUnifiedProviderConfig", "getProviderConfig",
                    "getProviderConfigWithOverrides"}
     /\ out.arg = p
     /\ getApiKey(p) # Null
     /\ out.res.kind = "ok")
    => /\ getModel(p).kind = "throw" => out.res.val.model \in {Null, ""}
       /\ getTemperature(p).kind = "throw" => out.res.val.temperature = NoNumber
       /\ getMaxTokens(p).kind = "throw" => out.res.val.maxTokens = NoNumber
       /\ getTimeout(p).kind = "throw" => out.res.val.timeout = NoNumber

\* C7: for a provider X with an API key whose only missing required field is the
\* model (neither X_MODEL nor X_MODEL_DEFAULT holds text), resolving X throws a
\* CONFIGURATION error naming both variables
C7_MissingModelThrowsNamingBothVariables ==
  \A p \in Providers :
    (/\ out.op \in {"getUnifiedProviderConfig", "getProviderConfigWithOverrides"}
     /\ out.arg = p
     /\ getApiKey(p) # Null
     /\ ~HasText(EnvGet(ToUpperCase(p) \o "_MODEL"))
     /\ ~HasText(EnvGet(ToUpperCase(p) \o "_MODEL_DEFAULT"))
     /\ getTemperature(p).kind = "ok"
     /\ getMaxTokens(p).kind = "ok"
     /\ getTimeout(p).kind = "ok")
    => /\ out.res.kind = "throw"
       /\ out.res.category = "configuration"
       /\ Includes(out.res.hint, ToUpperCase(p) \o "_MODEL ")
       /\ Includes(out.res.hint, ToUpperCase(p) \o "_MODEL_DEFAULT")

\* C8: with a priority list of supported providers, getBestAvailableProvider returns
\* the named default provider when it is configured, and otherwise the first
\* configured provider of the list, in list order (none when the list has no
\* configured provider). Listed(v) is the list a sampled PROVIDER_SELECTION_PRIORITY
\* names; a default that is not named counts as not configured.
C8_DefaultElseFirstConfiguredOfPriorityList ==
  LET Listed(v) ==
        CASE v = "google,openai" -> <<"google", "openai">>
          [] v = "openai, anthropic" -> <<"openai", "anthropic">>
          [] OTHER -> <<>>
      Expected(named, list) ==
        IF HasText(named) /\ isProviderConfigured(Trim(named)) THEN Ok(Trim(named))
        ELSE IF list[1] \in Providers /\ isProviderConfigured(list[1]) THEN Ok(list[1])
        ELSE IF list[2] \in Providers /\ isProviderConfigured(list[2]) THEN Ok(list[2])
        ELSE Ok(Null)
  IN (/\ out.op = "getBestAvailableProvider"
      /\ Listed(EnvGet("PROVIDER_SELECTION_PRIORITY")) # <<>>)
     => out.res = Expected(EnvGet("DEFAULT_LLM_PROVIDER"),
                           Listed(EnvGet("PROVIDER_SELECTION_PRIORITY")))

\* C9: with no provider configured and no unsupported name in the priority list,
\* getBestAvailableProvider returns none, whether or not a default provider is named
C9_NoneWhenNoProviderConfigured ==
  (/\ out.op = "getBestAvailableProvider"
   /\ \A p \in Providers : ~isProviderConfigured(p)
   /\ EnvGet("PROVIDER_SELECTION_PRIORITY") # "mistral,openai")
  => out.res = Ok(Null)

\* C10: outside test mode a provider whose API key has a placeholder shape (it
\* contains "your_", "_here", "placeholder" or "dummy", or is a templated
\* your-x-key-here) is not reported as configured and is not selected, and a
\* provider whose key is "sk-abc123realkey" is reported as configured
C10_PlaceholderKeysNotConfigured ==
  LET LooksLikePlaceholder(apiKey) ==
        \/ Includes(apiKey, "your_")
        \/ Includes(apiKey, "_here")
        \/ Includes(apiKey, "placeholder")
        \/ Includes(apiKey, "dummy")
        \/ (StartsWith(apiKey, "your-") /\ EndsWith(apiKey, "-key-here"))
  IN /\ \A p \in Providers :
          (out.op = "isProviderConfigured" /\ out.arg = p /\ ~TestMode
             /\ getApiKey(p) # Null)
          => /\ LooksLikePlaceholder(getApiKey(p)) => out.res = FALSE
             /\ getApiKey(p) = "sk-abc123realkey" => out.res = TRUE
     /\ (out.op = "getBestAvailableProvider" /\ ~TestMode /\ out.res.kind = "ok"
           /\ out.res.val \in Providers)
        => ~LooksLikePlaceholder(getApiKey(out.res.val))

(***************************************************************************)
(* Part III: the environment source chain                                  *)
(***************************************************************************)
EnvKeys == {"OPENAI_API_KEY", "LLM_TIMEOUT"}

\* what one source may hold: any of the keys, each empty or with the source's own text
SourceMaps(text) == UNION {[D -> {"", text}] : D \in SUBSET EnvKeys}

\* { ...low, ...high }
Spread(low, high) ==
  [k \in DOMAIN low \cup DOMAIN high |-> IF k \in DOMAIN high THEN high[k] ELSE low[k]]

\* a ?? b
Coalesce(a, b) == IF a # Undefined THEN a ELSE b

\* the providers of unnamed/part_008 as values
ProcessEnvProvider == [kind |-> "process"]
DotenvProvider(envVars) == [kind |-> "dotenv", envVars |-> envVars]
MergedEnvProvider(primary, fallback) ==
  [kind |-> "merged", primary |-> primary, fallback |-> fallback]
TripleMergedEnvProvider(mcpEnv, dotenvEnv, processEnv) ==
  [kind |-> "triple", mcpEnv |-> mcpEnv, dotenvEnv |-> dotenvEnv, processEnv |-> processEnv]

\* EnvironmentProvider.get
RECURSIVE ProviderGet(_, _)
ProviderGet(provider, key) ==
  CASE provider.kind = "process" -> EnvGet(key)
    [] provider.kind = "dotenv" ->
         IF key \in DOMAIN provider.envVars THEN provider.envVars[key] ELSE Undefined
    [] provider.kind = "merged" ->
         Coalesce(ProviderGet(provider.primary, key), ProviderGet(provider.fallback, key))
    [] provider.kind = "triple" ->
         Coalesce(Coalesce(ProviderGet(provider.mcpEnv, key),
                           ProviderGet(provider.dotenvEnv, key)),
                  ProviderGet(provider.processEnv, key))

\* EnvironmentProvider.has
RECURSIVE ProviderHas(_, _)
ProviderHas(provider, key) ==
  CASE provider.kind = "process" -> key \in DOMAIN env
    [] provider.kind = "dotenv" -> key \in DOMAIN provider.envVars
    [] provider.kind = "merged" ->
         ProviderHas(provider.primary, key) \/ ProviderHas(provider.fallback, key)
    [] provider.kind = "triple" ->
         \/ ProviderHas(provider.mcpEnv, key)
         \/ ProviderHas(provider.dotenvEnv, key)
         \/ ProviderHas(provider.processEnv, key)

\* mutant: the three records are spread highest priority first
TripleSpread_HighestFirst(processAll, dotenvAll, mcpAll) ==
  Spread(Spread(mcpAll, dotenvAll), processAll)

\* { ...this.processEnv.getAll(), ...this.dotenvEnv.getAll(), ...this.mcpEnv.getAll() }
TripleSpread(processAll, dotenvAll, mcpAll) ==
  Spread(Spread(processAll, dotenvAll), mcpAll)

\* EnvironmentProvider.getAll
RECURSIVE ProviderGetAll(_)
ProviderGetAll(provider) ==
  CASE provider.kind = "process" -> env
    [] provider.kind = "dotenv" -> provider.envVars
    [] provider.kind = "merged" ->
         Spread(ProviderGetAll(provider.fallback), ProviderGetAll(provider.primary))
    [] provider.kind = "triple" ->
         TripleSpread(ProviderGetAll(provider.processEnv),
                      ProviderGetAll(provider.dotenvEnv),
                      ProviderGetAll(provider.mcpEnv))

\* the process starts with the system environment overlaid by the env block of
\* the MCP client that spawned it; .env may be missing, unreadable or parsed
InitSources ==
  /\ InitCache
  /\ launch \in [mcp : SourceMaps("mcp"), system : SourceMaps("sys")]
  /\ dotenvFile \in
       {[state |-> "missing", vars |-> EmptyMap], [state |-> "unreadable", vars |-> EmptyMap]}
         \cup [state : {"parsed"}, vars : SourceMaps("file")]
  /\ env = Spread(launch.system, launch.mcp)
  /\ envProvider = [kind |-> "none"]
  /\ out = [op |-> "none"]
  /\ InitReaderIdle
  /\ InitServerIdle

\* dotenv.config({ path }): the parsed variables, and process.env given every parsed
\* key it did not already have
DotenvConfig(processEnv, parsed) == Spread(parsed, processEnv)

\* initializeEnvironmentProvider() followed by setEnvironmentProvider(envProvider):
\* both outer providers are ProcessEnvProvider; .env is loaded unless running via npx
InitializeEnvironmentProvider(isNPX) ==
  /\ envProvider.kind = "none"
  /\ IF ~isNPX /\ dotenvFile.state = "parsed"
     THEN /\ env' = DotenvConfig(env, dotenvFile.vars)
          /\ envProvider' = TripleMergedEnvProvider(ProcessEnvProvider,
                                                    DotenvProvider(dotenvFile.vars),
                                                    ProcessEnvProvider)
     ELSE /\ env' = env
          /\ envProvider' = TripleMergedEnvProvider(ProcessEnvProvider,
                                                    DotenvProvider(EmptyMap),
                                                    ProcessEnvProvider)
  /\ UNCHANGED <<out, launch, dotenvFile, cacheVars, readerVars, serverVars>>

\* new TripleMergedEnvProvider(...) over the three sources held as three separate
\* DotenvProvider objects
NewTripleMergedEnvProvider ==
  /\ envProvider.kind = "none"
  /\ envProvider' = TripleMergedEnvProvider(DotenvProvider(launch.mcp),
                                            DotenvProvider(dotenvFile.vars),
                                            DotenvProvider(launch.system))
  /\ UNCHANGED <<env, out, launch, dotenvFile, cacheVars, readerVars, serverVars>>

\* new MergedEnvProvider(primary, fallback) over two of the sources
NewMergedEnvProvider ==
  /\ envProvider.kind = "none"
  /\ envProvider' = MergedEnvProvider(DotenvProvider(launch.mcp),
                                      DotenvProvider(launch.system))
  /\ UNCHANGED <<env, out, launch, dotenvFile, cacheVars, readerVars, serverVars>>

EnvProviderGet(key) ==
  /\ envProvider.kind # "none"
  /\ out.op = "none"
  /\ out' = Returned("get", key, ProviderGet(envProvider, key))
  /\ UNCHANGED <<env, sourceVars, cacheVars, readerVars, serverVars>>

EnvProviderHas(key) ==
  /\ envProvider.kind # "none"
  /\ out.op = "none"
  /\ out' = Returned("has", key, ProviderHas(envProvider, key))
  /\ UNCHANGED <<env, sourceVars, cacheVars, readerVars, serverVars>>

EnvProviderGetAll ==
  /\ envProvider.kind # "none"
  /\ out.op = "none"
  /\ out' = Returned("getAll", Undefined, ProviderGetAll(envProvider))
  /\ UNCHANGED <<env, sourceVars, cacheVars, readerVars, serverVars>>

\* a configuration function reads a key after start-up
ResolveEnvVariable(key) ==
  /\ envProvider.kind = "triple"
  /\ envProvider.mcpEnv.kind = "process"
  /\ out.op = "none"
  /\ out' = Returned("resolveEnvVariableCached", key, resolveEnvVariableCached(key))
  /\ UNCHANGED <<env, sourceVars, cacheVars, readerVars, serverVars>>

NextSources ==
  \/ \E isNPX \in BOOLEAN : InitializeEnvironmentProvider(isNPX)
  \/ NewTripleMergedEnvProvider
  \/ NewMergedEnvProvider
  \/ \E key \in EnvKeys : EnvProviderGet(key)
  \/ \E key \in EnvKeys : EnvProviderHas(key)
  \/ EnvProviderGetAll
  \/ \E key \in EnvKeys : ResolveEnvVariable(key)
  \/ TakeResult

SpecSources == InitSources /\ [][NextSources]_vars

\* the .env file was parsed and loaded by the start-up that built envProvider
DotenvLoaded ==
  /\ envProvider.kind = "triple"
  /\ envProvider.mcpEnv.kind = "process"
  /\ dotenvFile.state = "parsed"
  /\ envProvider.dotenvEnv.envVars = dotenvFile.vars

\* C11: after a start-up that loaded .env, the value resolved for a key, through
\* the environment provider or by a configuration function, is the MCP client's
\* if it set the key, else the .env file's if it sets the key, else the system's
\* (keys that a source sets to the empty string are left aside)
C11_ResolvedBySourcePriority ==
  LET From(source, key) == IF key \in DOMAIN source THEN source[key] ELSE Undefined
  IN \A key \in EnvKeys :
       (/\ DotenvLoaded
        /\ out.op \in {"get", "resolveEnvVariableCached"}
        /\ out.arg = key
        /\ "" \notin {From(launch.mcp, key), From(dotenvFile.vars, key),
                       From(launch.system, key)})
       => out.res = Coalesce(Coalesce(From(launch.mcp, key), From(dotenvFile.vars, key)),
                             From(launch.system, key))

\* C12: the mapping getAll() returns holds, for every key, exactly the value
\* get(key) returns, and holds no key for which get(key) is absent
C12_GetAllAgreesWithGet ==
  out.op = "getAll" =>
    /\ DOMAIN out.res \subseteq EnvKeys
    /\ \A key \in EnvKeys :
         IF ProviderGet(envProvider, key) = Undefined
         THEN key \notin DOMAIN out.res
         ELSE key \in DOMAIN out.res /\ out.res[key] = ProviderGet(envProvider, key)

\* getAll() of a triple provider over three separate sources, where one key is set
\* in all three and the other only in the lower two
W_C12 ==
  /\ out.op = "getAll"
  /\ envProvider.kind = "triple"
  /\ envProvider.mcpEnv = DotenvProvider([k \in {"LLM_TIMEOUT"} |-> "mcp"])
  /\ envProvider.dotenvEnv = DotenvProvider([k \in EnvKeys |-> "file"])
  /\ envProvider.processEnv = DotenvProvider([k \in EnvKeys |-> "sys"])
  /\ out.res = [k \in EnvKeys |-> IF k = "LLM_TIMEOUT" THEN "mcp" ELSE "file"]

(***************************************************************************)
(* Part IV: the targeted file reader and the context assembler             *)
(***************************************************************************)

\* Files are texts of at most MaxFileLen characters; the reader takes CHUNK_SIZE
\* characters per read (1024 bytes in the code: the model's chunk is short, so that
\* short files span several chunks); callers ask for at most MaxLines lines.
MaxFileLen == 5
CHUNK_SIZE == 2
MaxLines == 3

Newline == "\n"
Alphabet == {"a", "b", Newline}
Min(a, b) == IF a <= b THEN a ELSE b
Max(a, b) == IF a >= b THEN a ELSE b

RECURSIVE TextsOfLength(_)
TextsOfLength(n) ==
  IF n = 0 THEN {""} ELSE {t \o c : t \in TextsOfLength(n - 1), c \in Alphabet}
Texts == UNION {TextsOfLength(n) : n \in 0..MaxFileLen}

\* s.indexOf("\n", from) and s.lastIndexOf("\n"), 1-based, 0 when there is none
RECURSIVE IndexOfNewline(_, _)
IndexOfNewline(s, i) ==
  IF i > Len(s) THEN 0
  ELSE IF SubSeq(s, i, i) = Newline THEN i ELSE IndexOfNewline(s, i + 1)

RECURSIVE LastIndexOfNewline(_, _)
LastIndexOfNewline(s, i) ==
  IF i < 1 THEN 0
  ELSE IF SubSeq(s, i, i) = Newline THEN i ELSE LastIndexOfNewline(s, i - 1)

\* s.split("\n"): one more element than there are newlines
RECURSIVE SplitLines(_)
SplitAt(s, i) ==
  IF i = 0 THEN <<s>>
  ELSE <<SubSeq(s, 1, i - 1)>> \o SplitLines(SubSeq(s, i + 1, Len(s)))
SplitLines(s) == SplitAt(s, IndexOfNewline(s, 1))

\* lines.join("\n")
RECURSIVE Join(_)
Join(lines) ==
  IF Len(lines) = 0 THEN ""
  ELSE IF Len(lines) = 1 THEN lines[1]
  ELSE lines[1] \o Newline \o Join(Tail(lines))

\* lines.slice(0, n) and lines.slice(-n), for n >= 1
SliceFirst(lines, n) == SubSeq(lines, 1, Min(n, Len(lines)))
SliceLast(lines, n) == SubSeq(lines, Max(1, Len(lines) - n + 1), Len(lines))

\* fileHandle.read(chunk, 0, length, position): the text from `position` on, at most
\* `length` long, empty at end of file
ReadAt(content, position, length) ==
  SubSeq(content, position + 1, Min(position + length, Len(content)))

\* headFile: after the loop, the unfinished last line counts if lines are still wanted
HeadEnd(numLines, lines, buffer) ==
  Join(SliceFirst(IF Len(buffer) > 0 /\ Len(lines) < numLines
                  THEN Append(lines, buffer) ELSE lines, numLines))

RECURSIVE HeadLoop(_, _, _, _, _)
\* the complete lines of the buffer, up to its last newline, are moved to `lines`
HeadLines(content, numLines, lines, buffer, bytesRead, newLineIndex) ==
  IF newLineIndex = 0
  THEN HeadLoop(content, numLines, lines, buffer, bytesRead)
  ELSE HeadLoop(content, numLines,
                lines \o SplitLines(SubSeq(buffer, 1, newLineIndex - 1)),
                SubSeq(buffer, newLineIndex + 1, Len(buffer)), bytesRead)

HeadChunk(content, numLines, lines, buffer, bytesRead, text) ==
  IF Len(text) = 0
  THEN HeadEnd(numLines, lines, buffer)
  ELSE HeadLines(content, numLines, lines, buffer \o text, bytesRead + Len(text),
                 LastIndexOfNewline(buffer \o text, Len(buffer) + Len(text)))

HeadLoop(content, numLines, lines, buffer, bytesRead) ==
  IF Len(lines) < numLines
  THEN HeadChunk(content, numLines, lines, buffer, bytesRead,
                 ReadAt(content, bytesRead, CHUNK_SIZE))
  ELSE HeadEnd(numLines, lines, buffer)

headFile(content, numLines) == HeadLoop(content, numLines, <<>>, "", 0)

\* tailFile: after the loop, the text before the first newline seen counts as a line if
\* lines are still wanted and it is not empty
TailEnd(numLines, lines, linesFound, remainingText) ==
  Join(SliceLast(IF linesFound < numLines /\ Len(remainingText) > 0
                 THEN <<remainingText>> \o lines ELSE lines, numLines))

RECURSIVE TailLoop(_, _, _, _, _, _)
\* of the parts of one chunk (joined with what was left of the chunk after it) the
\* last `taken` ones, never the first, are put in front of `lines`
TailTake(content, numLines, lines, position, linesFound, parts, taken) ==
  TailLoop(content, numLines,
           SubSeq(parts, Len(parts) - taken + 1, Len(parts)) \o lines,
           position, linesFound + taken, parts[1])

TailChunk(content, numLines, lines, position, linesFound, parts) ==
  TailTake(content, numLines, lines, position, linesFound, parts,
           Min(Len(parts) - 1, numLines - linesFound))

TailLoop(content, numLines, lines, position, linesFound, remainingText) ==
  IF position > 0 /\ linesFound < numLines
  THEN TailChunk(content, numLines, lines, position - Min(CHUNK_SIZE, position), linesFound,
                 SplitLines(ReadAt(content, position - Min(CHUNK_SIZE, position),
                                   Min(CHUNK_SIZE, position)) \o remainingText))
  ELSE TailEnd(numLines, lines, linesFound, remainingText)

tailFile(content, numLines) ==
  IF Len(content) = 0 THEN "" ELSE TailLoop(content, numLines, <<>>, Len(content), 0, "")

RECURSIVE RangeLoop(_, _, _, _, _, _, _)
\* the complete lines of the buffer are counted, and kept if their number is in range,
\* until the end line is reached
RangeLines(content, startLine, endLine, targetLines, currentLineNumber, buffer, bytesRead,
           newLineIndex, lines) ==
  IF newLineIndex = 0
  THEN RangeLoop(content, startLine, endLine, targetLines, currentLineNumber, buffer,
                 bytesRead)
  ELSE RangeLoop(content, startLine, endLine,
                 targetLines \o SubSeq(lines, Max(startLine - currentLineNumber, 1),
                                       Min(endLine - currentLineNumber, Len(lines))),
                 Min(currentLineNumber + Len(lines), endLine),
                 SubSeq(buffer, newLineIndex + 1, Len(buffer)), bytesRead)

RangeChunk(content, startLine, endLine, targetLines, currentLineNumber, buffer, bytesRead,
           text) ==
  IF Len(text) = 0
  THEN Join(IF /\ Len(buffer) > 0
               /\ currentLineNumber + 1 >= startLine
               /\ currentLineNumber + 1 <= endLine
            THEN Append(targetLines, buffer) ELSE targetLines)
  ELSE RangeLines(content, startLine, endLine, targetLines, currentLineNumber,
                  buffer \o text, bytesRead + Len(text),
                  LastIndexOfNewline(buffer \o text, Len(buffer) + Len(text)),
                  SplitLines(SubSeq(buffer \o text, 1,
                                    LastIndexOfNewline(buffer \o text,
                                                       Len(buffer) + Len(text)) - 1)))

RangeLoop(content, startLine, endLine, targetLines, currentLineNumber, buffer, bytesRead) ==
  IF currentLineNumber < endLine
  THEN RangeChunk(content, startLine, endLine, targetLines, currentLineNumber, buffer,
                  bytesRead, ReadAt(content, bytesRead, CHUNK_SIZE))
  ELSE Join(targetLines)

rangeFile(content, startLine, endLine) ==
  RangeLoop(content, startLine, endLine, <<>>, 0, "", 0)

\* a regular file of the file system
File(content) == [kind |-> "file", content |-> content]
ProjectRoot == "/p"
SourceFile == "/p/a.ts"

\* one file of any content, and no read in progress
InitLines ==
  /\ InitCache
  /\ InitConfIdle
  /\ InitSourcesIdle
  /\ InitServerIdle
  /\ fs \in [{SourceFile} -> {File(t) : t \in Texts}]
  /\ toolConfig = [readFile |-> [enabled |-> TRUE]]
  /\ batch = [state |-> "none"]
  /\ asm = [state |-> "idle"]
  /\ readLog = <<>>

CallHeadFile(numLines) ==
  /\ out.op = "none"
  /\ out' = Returned("headFile", <<SourceFile, numLines>>,
                     headFile(fs[SourceFile].content, numLines))
  /\ UNCHANGED <<env, cacheVars, restVars>>

CallTailFile(numLines) ==
  /\ out.op = "none"
  /\ out' = Returned("tailFile", <<SourceFile, numLines>>,
                     tailFile(fs[SourceFile].content, numLines))
  /\ UNCHANGED <<env, cacheVars, restVars>>

CallRangeFile(startLine, endLine) ==
  /\ out.op = "none"
  /\ out' = Returned("rangeFile", <<SourceFile, startLine, endLine>>,
                     rangeFile(fs[SourceFile].content, startLine, endLine))
  /\ UNCHANGED <<env, cacheVars, restVars>>

NextLines ==
  \/ \E numLines \in 1..MaxLines : CallHeadFile(numLines)
  \/ \E numLines \in 1..MaxLines : CallTailFile(numLines)
  \/ \E startLine \in 1..MaxLines : \E endLine \in startLine..MaxLines :
       CallRangeFile(startLine, endLine)
  \/ TakeResult

SpecLines == InitLines /\ [][NextLines]_vars

\* C18: headFile(n) gives the first n lines, and rangeFile(start, end) the lines start
\* to end, of the whole text split on newline, joined by newline: whatever the file
\* holds (no newline at its end, a newline at its end, nothing at all).
C18_HeadAndRangeEqualReference ==
  LET reference == SplitLines(fs[SourceFile].content)
  IN /\ out.op = "headFile" => out.res = Join(SliceFirst(reference, out.arg[2]))
     /\ out.op = "rangeFile" =>
          out.res = Join(SubSeq(reference, out.arg[2], Min(out.arg[3], Len(reference))))

\* C19: tailFile(n) gives the last n lines of the whole text split on newline, joined by
\* newline: also when a line lies across chunk boundaries, when the file has fewer
\* than n lines and when it is empty.
C19_TailEqualsReference ==
  LET reference == SplitLines(fs[SourceFile].content)
  IN out.op = "tailFile" => out.res = Join(SliceLast(reference, out.arg[2]))

(***************************************************************************)
(* Part IV, continued: requests, their validation, single and batch reads  *)
(***************************************************************************)

\* the largest batch the assembler or a client passes in the model
MaxTargets == 3
MaxFilesPerOperation == 50

ReadModes == {"full", "head", "tail", "range"}

\* a read request; an absent mode is Undefined, an absent number is NoNumber
Request(path, mode, lines, startLine, endLine) ==
  [path |-> path, mode |-> mode, lines |-> lines, startLine |-> startLine,
   endLine |-> endLine]

Given(n) == n # NoNumber
Truthy(n) == n # NoNumber /\ n # 0

\* z.number().positive().int().optional()
PositiveIntOptional(n) == n = NoNumber \/ n > 0

\* .refine(...) of ReadFileArgsSchema, on the data with the default mode filled in
Refinement(data) ==
  /\ data.mode \in {"head", "tail"} =>
       Truthy(data.lines) /\ ~Given(data.startLine) /\ ~Given(data.endLine)
  /\ data.mode = "range" =>
       /\ Truthy(data.startLine) /\ Truthy(data.endLine)
       /\ data.startLine <= data.endLine
       /\ ~Given(data.lines)
  /\ data.mode = "full" =>
       ~Given(data.lines) /\ ~Given(data.startLine) /\ ~Given(data.endLine)

ZodError(message) == [success |-> FALSE, error |-> message]

Refined(data) ==
  IF Refinement(data) THEN [success |-> TRUE, data |-> data]
  ELSE ZodError("Invalid parameter combination.")

\* ReadFileArgsSchema.parse(args), as { success, data } or { success, error }
ReadFileArgsSchema(args) ==
  IF args.mode \notin ReadModes \cup {Undefined} THEN ZodError("Invalid enum value.")
  ELSE IF ~(/\ PositiveIntOptional(args.lines)
            /\ PositiveIntOptional(args.startLine)
            /\ PositiveIntOptional(args.endLine))
  THEN ZodError("Number must be greater than 0")
  ELSE Refined([args EXCEPT !.mode = IF @ = Undefined THEN "full" ELSE @])

RECURSIVE FirstInvalid(_, _)
FirstInvalid(files, i) ==
  IF i > Len(files) THEN 0
  ELSE IF ~ReadFileArgsSchema(files[i]).success THEN i ELSE FirstInvalid(files, i + 1)

RECURSIVE ParsedFiles(_, _)
ParsedFiles(files, i) ==
  IF i > Len(files) THEN <<>>
  ELSE <<ReadFileArgsSchema(files[i]).data>> \o ParsedFiles(files, i + 1)

FilesParsed(files, invalid) ==
  IF invalid # 0 THEN ZodError(ReadFileArgsSchema(files[invalid]).error)
  ELSE [success |-> TRUE, data |-> ParsedFiles(files, 1)]

\* ReadMultipleFilesArgsSchema.parse({ files }): every element must parse
ReadMultipleFilesArgsSchema(files) ==
  IF Len(files) < 1 THEN ZodError("At least one file must be provided")
  ELSE IF Len(files) > MaxFilesPerOperation THEN ZodError("Maximum 50 files per operation")
  ELSE FilesParsed(files, FirstInvalid(files, 1))

FsError(syscall, path) ==
  "ENOENT: no such file or directory, " \o syscall \o " '" \o path \o "'"

ReadContent(content, data) ==
  CASE data.mode = "head" -> headFile(content, data.lines)
    [] data.mode = "tail" -> tailFile(content, data.lines)
    [] data.mode = "range" -> rangeFile(content, data.startLine, data.endLine)
    [] OTHER -> content

\* the switch of readSingleFile on validated arguments
ReadMode(fsys, data) ==
  IF data.path \notin DOMAIN fsys
  THEN [success |-> FALSE,
        error |-> FsError(IF data.mode = "tail" THEN "stat" ELSE "open", data.path)]
  ELSE [success |-> TRUE, content |-> ReadContent(fsys[data.path].content, data)]

ReadValidated(fsys, parsed) ==
  IF parsed.success THEN ReadMode(fsys, parsed.data)
  ELSE [success |-> FALSE, error |-> parsed.error]

readSingleFile(fsys, args) == ReadValidated(fsys, ReadFileArgsSchema(args))

\* { path, content: result.content, error: result.error }
ResultOf(path, result) ==
  [path |-> path,
   content |-> IF result.success THEN result.content ELSE Undefined,
   error |-> IF result.success THEN Undefined ELSE result.error]

\* the accesses to the file system one call makes, by the position of the request
Opened(id) == [ev |-> "open", id |-> id]
Done(id) == [ev |-> "done", id |-> id]

RECURSIVE OpenAll(_, _)
OpenAll(ids, k) == IF k > Len(ids) THEN <<>> ELSE <<Opened(ids[k])>> \o OpenAll(ids, k + 1)

RECURSIVE PendingResults(_, _)
PendingResults(files, k) ==
  IF k > Len(files) THEN <<>>
  ELSE <<[path |-> files[k].path, content |-> Undefined, error |-> Undefined]>>
         \o PendingResults(files, k + 1)

\* files.map(async (fileRequest) => ...): every read is started, none has settled
StartBatch(owner, args, files, ids) ==
  [state |-> "reading", owner |-> owner, args |-> args, files |-> files, ids |-> ids,
   results |-> PendingResults(files, 1), settled |-> {}]

\* Promise.all puts each result at the index of its request
ResultSlot_ByCompletion(settledCount, i) == settledCount + 1
ResultSlot(settledCount, i) == i

\* Promise.all resolves when every read has settled
AllSettled_Any(b) == b.settled # {}
AllSettled(b) == b.settled = 1..Len(b.files)

IdleReader == batch.state = "none" /\ asm.state = "idle" /\ out.op = "none"

\* readFileTool(args): one request, read to the end
ReadFileTool(args) ==
  /\ IdleReader
  /\ out' = Returned("readFileTool", args, readSingleFile(fs, args))
  /\ readLog' = IF ReadFileArgsSchema(args).success THEN <<Opened(1), Done(1)>> ELSE <<>>
  /\ UNCHANGED <<env, cacheVars, sourceVars, serverVars, fs, toolConfig, batch, asm>>

ToolStarted(files, parsed) ==
  IF parsed.success
  THEN /\ batch' = StartBatch("client", files, parsed.data, [k \in 1..Len(files) |-> k])
       /\ readLog' = OpenAll([k \in 1..Len(files) |-> k], 1)
       /\ out' = out
  ELSE /\ batch' = batch
       /\ readLog' = <<>>
       /\ out' = Returned("readMultipleFilesTool", files,
                          [success |-> FALSE, results |-> <<>>])

\* readMultipleFilesTool({ files }) up to its await
ReadMultipleFilesTool(files) ==
  /\ IdleReader
  /\ ToolStarted(files, ReadMultipleFilesArgsSchema(files))
  /\ UNCHANGED <<env, cacheVars, sourceVars, serverVars, fs, toolConfig, asm>>

\* one read of the batch settles, in any order
CompleteRead(i) ==
  /\ batch.state = "reading"
  /\ i \in 1..Len(batch.files)
  /\ i \notin batch.settled
  /\ batch' = [batch EXCEPT
                 !.results[ResultSlot(Cardinality(batch.settled), i)] =
                    ResultOf(batch.files[i].path, readSingleFile(fs, batch.files[i])),
                 !.settled = @ \cup {i}]
  /\ readLog' = Append(readLog, Done(batch.ids[i]))
  /\ UNCHANGED <<env, out, cacheVars, sourceVars, serverVars, fs, toolConfig, asm>>

\* readMultipleFilesTool after its await
ReadMultipleFilesToolReturn ==
  /\ batch.state = "reading"
  /\ batch.owner = "client"
  /\ AllSettled(batch)
  /\ out' = Returned("readMultipleFilesTool", batch.args,
                     [success |-> TRUE, results |-> batch.results])
  /\ batch' = [state |-> "none"]
  /\ UNCHANGED <<env, cacheVars, sourceVars, serverVars, fs, toolConfig, asm, readLog>>

(***************************************************************************)
(* Part IV, continued: ToolCallingService.readMultipleFiles and the        *)
(* assembler analyzeTargetedSections                                       *)
(***************************************************************************)

\* an analysis target; an absent mode or priority is Undefined, an absent number NoNumber
Target(file, mode, lines, startLine, endLine, priority) ==
  [file |-> file, mode |-> mode, lines |-> lines, startLine |-> startLine,
   endLine |-> endLine, priority |-> priority]

TruthyText(x) == x # Undefined /\ x # ""

isAbsolute(path) == StartsWith(path, "/")
\* path.resolve(base, file) for a plain relative file name
Resolve(base, file) == base \o "/" \o file

FullPath(file, workingDirectory) ==
  IF isAbsolute(file) THEN file
  ELSE IF TruthyText(workingDirectory) THEN Resolve(workingDirectory, file)
  ELSE Resolve(ProjectRoot, file)

\* targetGroup.map((target) => ({ path, mode: target.mode || "range", ... }))
FileRequest(target, workingDirectory) ==
  Request(FullPath(target.file, workingDirectory),
          IF TruthyText(target.mode) THEN target.mode ELSE "range",
          target.lines, target.startLine, target.endLine)

RECURSIVE LastIndexOf(_, _, _)
LastIndexOf(s, c, i) ==
  IF i < 1 THEN 0 ELSE IF SubSeq(s, i, i) = c THEN i ELSE LastIndexOf(s, c, i - 1)

DotExtension(ext) == IF ext # "" THEN "." \o ext ELSE ""
\* filePath.split(".").pop()?.toLowerCase(), with a dot in front unless it is empty
getFileExtension(filePath) ==
  DotExtension(ToLowerCase(SubSeq(filePath, LastIndexOf(filePath, ".", Len(filePath)) + 1,
                                  Len(filePath))))

RECURSIVE FirstDisallowed(_, _, _)
FirstDisallowed(config, files, i) ==
  IF i > Len(files) THEN 0
  ELSE IF getFileExtension(files[i].path) \notin config.allowedFileExtensions THEN i
  ELSE FirstDisallowed(config, files, i + 1)

\* what ToolCallingService.readMultipleFiles answers before reading anything:
\* Undefined when it goes on to read
ServiceRefusal(config, files) ==
  IF ~config.readFile.enabled THEN "File reading is disabled in configuration"
  ELSE IF FirstDisallowed(config, files, 1) # 0
  THEN "File extension '"
         \o getFileExtension(files[FirstDisallowed(config, files, 1)].path)
         \o "' is not allowed for " \o files[FirstDisallowed(config, files, 1)].path
  ELSE Undefined

\* the size limit applied to each result that has content (the model counts
\* characters where the code counts kilobytes)
SizeChecked(config, result) ==
  IF TruthyText(result.content) /\ Len(result.content) > config.maxFileSizeKB
  THEN [result EXCEPT !.content = Undefined,
                      !.error = "File size exceeds maximum allowed size"]
  ELSE result

PriorityLabel(target) == IF target.priority = "critical" THEN " [CRITICAL]" ELSE ""
NumberText(n) == IF n = NoNumber THEN Undefined ELSE ToString(n)

ModeInfo(target) ==
  IF TruthyText(target.mode)
  THEN "Mode: " \o target.mode
         \o (IF Truthy(target.lines) THEN " (" \o ToString(target.lines) \o " lines)"
             ELSE "")
  ELSE "Lines " \o NumberText(target.startLine) \o "-" \o NumberText(target.endLine)

\* the code fence the assembler puts around content: three backquotes in the code,
\* three tildes here, as a backquote cannot be written in a string of this module
Fence == "~~~"

\* the lines pushed for one target of a group that was read
SectionLines(target, result) ==
  <<"### " \o target.file \o PriorityLabel(target)>>
  \o (IF TruthyText(target.mode) \/ Truthy(target.startLine)
      THEN <<"**" \o ModeInfo(target) \o "**">> ELSE <<>>)
  \o (IF TruthyText(result.content)
      THEN <<Fence, result.content, Fence \o "\n">>
      ELSE <<"Failed to read section: " \o result.error \o "\n">>)

RECURSIVE GroupSections(_, _, _, _, _)
GroupSections(config, targets, indices, results, k) ==
  IF k > Len(indices) THEN <<>>
  ELSE SectionLines(targets[indices[k]], SizeChecked(config, results[k]))
         \o GroupSections(config, targets, indices, results, k + 1)

\* targets.filter(...) of the three priority groups
IsImportant_OnlyWhenSaid(target) == target.priority = "important"
IsImportant(target) == target.priority = "important" \/ ~TruthyText(target.priority)

InGroup(target, g) ==
  CASE g = 1 -> target.priority = "critical"
    [] g = 2 -> IsImportant(target)
    [] OTHER -> target.priority = "supplementary"

RECURSIVE GroupIndices(_, _, _)
GroupIndices(targets, g, i) ==
  IF i > Len(targets) THEN <<>>
  ELSE (IF InGroup(targets[i], g) THEN <<i>> ELSE <<>>) \o GroupIndices(targets, g, i + 1)

RECURSIVE GroupRequests(_, _, _, _)
GroupRequests(targets, workingDirectory, indices, k) ==
  IF k > Len(indices) THEN <<>>
  ELSE <<FileRequest(targets[indices[k]], workingDirectory)>>
         \o GroupRequests(targets, workingDirectory, indices, k + 1)

AnalysisHeader ==
  <<"## Targeted Code Analysis", "*(Client-specified code sections with mode support)*\n">>

\* the loop over the three groups from group g on, up to the next await that has
\* reads to wait for: a call that is refused, or whose requests do not parse, answers
\* success: false and its group adds nothing
RECURSIVE ProcessGroups(_, _, _, _, _, _)
ProcessRequests(config, targets, workingDirectory, g, analysis, filesProcessed, indices,
                fileRequests) ==
  IF \/ ServiceRefusal(config, fileRequests) # Undefined
     \/ ~ReadMultipleFilesArgsSchema(fileRequests).success
  THEN ProcessGroups(config, targets, workingDirectory, g + 1, analysis, filesProcessed)
  ELSE [state |-> "awaiting", group |-> g, indices |-> indices, args |-> fileRequests,
        files |-> ReadMultipleFilesArgsSchema(fileRequests).data,
        analysis |-> analysis, filesProcessed |-> filesProcessed]

ProcessGroup(config, targets, workingDirectory, g, analysis, filesProcessed, indices) ==
  IF Len(indices) = 0
  THEN ProcessGroups(config, targets, workingDirectory, g + 1, analysis, filesProcessed)
  ELSE ProcessRequests(config, targets, workingDirectory, g, analysis, filesProcessed,
                       indices, GroupRequests(targets, workingDirectory, indices, 1))

ProcessGroups(config, targets, workingDirectory, g, analysis, filesProcessed) ==
  IF g > 3
  THEN [state |-> "returned", analysis |-> analysis, filesProcessed |-> filesProcessed]
  ELSE ProcessGroup(config, targets, workingDirectory, g, analysis, filesProcessed,
                    GroupIndices(targets, g, 1))

\* the assembler either waits for the reads of a group or returns
Suspended(targets, workingDirectory, r, log) ==
  IF r.state = "awaiting"
  THEN /\ asm' = [state |-> "awaiting", targets |-> targets,
                  workingDirectory |-> workingDirectory, group |-> r.group,
                  indices |-> r.indices, analysis |-> r.analysis,
                  filesProcessed |-> r.filesProcessed]
       /\ batch' = StartBatch("assembler", r.args, r.files, r.indices)
       /\ readLog' = log \o OpenAll(r.indices, 1)
       /\ out' = out
  ELSE /\ asm' = [state |-> "idle"]
       /\ batch' = [state |-> "none"]
       /\ readLog' = log
       /\ out' = Returned("analyzeTargetedSections",
                          [targets |-> targets, workingDirectory |-> workingDirectory],
                          [content |-> Join(r.analysis),
                           fileAnalysisPerformed |-> TRUE,
                           filesAnalyzed |-> Cardinality(r.filesProcessed),
                           toolsUsed |-> <<"readMultipleFiles">>])

\* analyzeTargetedSections(targets, projectRoot, workingDirectory) up to its first await
AnalyzeTargetedSections(targets, workingDirectory) ==
  /\ IdleReader
  /\ Suspended(targets, workingDirectory,
               ProcessGroups(toolConfig, targets, workingDirectory, 1, AnalysisHeader, {}),
               <<>>)
  /\ UNCHANGED <<env, cacheVars, sourceVars, serverVars, fs, toolConfig>>

\* the reads of the group have all settled: its sections are pushed and the loop goes on
AssemblerResume ==
  /\ batch.state = "reading"
  /\ batch.owner = "assembler"
  /\ AllSettled(batch)
  /\ Suspended(asm.targets, asm.workingDirectory,
               ProcessGroups(toolConfig, asm.targets, asm.workingDirectory, asm.group + 1,
                             asm.analysis
                               \o GroupSections(toolConfig, asm.targets, asm.indices,
                                                batch.results, 1),
                             asm.filesProcessed
                               \cup {asm.targets[asm.indices[k]].file :
                                       k \in 1..Len(asm.indices)}),
               readLog)
  /\ UNCHANGED <<env, cacheVars, sourceVars, serverVars, fs, toolConfig>>

\* the files of the project, the configurations of the service, and what callers ask
ProjectFiles ==
  [p \in {"/p/a.ts", "/p/b.ts", "/p/empty.ts", "/p/x.exe", "/w/a.ts"} |->
     File(CASE p = "/p/a.ts" -> "a\nab\nb"
            [] p = "/p/b.ts" -> "b\nbb"
            [] p = "/p/empty.ts" -> ""
            [] p = "/p/x.exe" -> "x"
            [] OTHER -> "ab")]

AllowedFileExtensions == {".js", ".ts", ".json", ".md"}

ToolConfigs ==
  {[readFile |-> [enabled |-> c[1]], maxFileSizeKB |-> c[2],
    allowedFileExtensions |-> AllowedFileExtensions] :
     c \in {<<TRUE, 1024>>, <<TRUE, 4>>, <<FALSE, 1024>>}}

RequestSamples ==
  {Request(path, mode, lines, startLine, endLine) :
     path \in {"/p/a.ts", "/p/missing.ts"}, mode \in ReadModes \cup {Undefined},
     lines \in {NoNumber, 0, 2}, startLine \in {NoNumber, 1, 2}, endLine \in {NoNumber, 1}}

BatchSamples ==
  {Request("/p/a.ts", "full", NoNumber, NoNumber, NoNumber),
   Request("/p/b.ts", "tail", 2, NoNumber, NoNumber),
   Request("/p/missing.ts", "head", 1, NoNumber, NoNumber),
   Request("/p/a.ts", "range", NoNumber, 2, 1),
   Request("/p/b.ts", "head", NoNumber, NoNumber, NoNumber)}

TargetSamples ==
  {Target("a.ts", "full", NoNumber, NoNumber, NoNumber, "supplementary"),
   Target("b.ts", "head", 2, NoNumber, NoNumber, "critical"),
   Target("/p/a.ts", Undefined, NoNumber, 1, 2, Undefined),
   Target("missing.ts", "tail", 1, NoNumber, NoNumber, "critical"),
   Target("empty.ts", "full", NoNumber, NoNumber, NoNumber, "important"),
   Target("x.exe", "full", NoNumber, NoNumber, NoNumber, "supplementary"),
   Target("a.ts", Undefined, NoNumber, NoNumber, NoNumber, "important")}

SeqsUpTo(S, n) == UNION {[1..k -> S] : k \in 0..n}

InitReader ==
  /\ InitCache
  /\ InitConfIdle
  /\ InitSourcesIdle
  /\ InitServerIdle
  /\ fs = ProjectFiles
  /\ toolConfig \in ToolConfigs
  /\ batch = [state |-> "none"]
  /\ asm = [state |-> "idle"]
  /\ readLog = <<>>

NextReader ==
  \/ \E args \in RequestSamples : ReadFileTool(args)
  \/ \E files \in SeqsUpTo(BatchSamples, MaxTargets) : ReadMultipleFilesTool(files)
  \/ \E i \in 1..MaxTargets : CompleteRead(i)
  \/ ReadMultipleFilesToolReturn
  \/ \E targets \in SeqsUpTo(TargetSamples, MaxTargets) :
       \E workingDirectory \in {Undefined, "/w"} :
         AnalyzeTargetedSections(targets, workingDirectory)
  \/ AssemblerResume
  \/ TakeResult

SpecReader == InitReader /\ [][NextReader]_vars

\* the sections of an assembled context, read back from its lines: the file named by
\* each "### " header and whether an error text stands where the content would
HeaderFile(line) ==
  IF EndsWith(line, " [CRITICAL]") THEN SubSeq(line, 5, Len(line) - 11)
  ELSE SubSeq(line, 5, Len(line))

SectionFailed(lines, i) ==
  \E j \in {i, i + 1} :
    /\ j <= Len(lines)
    /\ StartsWith(lines[j], "Failed to read section: ")
    /\ j = i + 1 => StartsWith(lines[i], "**")

RECURSIVE ListedSections(_, _)
ListedSections(lines, i) ==
  IF i > Len(lines) THEN <<>>
  ELSE (IF StartsWith(lines[i], "### ")
        THEN <<[file |-> HeaderFile(lines[i]), failed |-> SectionFailed(lines, i + 1)]>>
        ELSE <<>>) \o ListedSections(lines, i + 1)

\* the order the specification gives the targets: critical, then important (or no
\* priority), then supplementary, each in input order; as positions in the input
RankOf(target) ==
  CASE target.priority = "critical" -> 1
    [] target.priority = "supplementary" -> 3
    [] OTHER -> 2

RECURSIVE InRank(_, _, _)
InRank(targets, rank, i) ==
  IF i > Len(targets) THEN <<>>
  ELSE (IF RankOf(targets[i]) = rank THEN <<i>> ELSE <<>>) \o InRank(targets, rank, i + 1)

\* the call of readMultipleFiles for the targets of one rank is answered with reads
WasRead(targets, workingDirectory, rank) ==
  /\ ServiceRefusal(toolConfig,
                    GroupRequests(targets, workingDirectory, InRank(targets, rank, 1), 1))
       = Undefined
  /\ ReadMultipleFilesArgsSchema(
       GroupRequests(targets, workingDirectory, InRank(targets, rank, 1), 1)).success

ReadOrder(targets, workingDirectory) ==
  (IF WasRead(targets, workingDirectory, 1) THEN InRank(targets, 1, 1) ELSE <<>>)
  \o (IF WasRead(targets, workingDirectory, 2) THEN InRank(targets, 2, 1) ELSE <<>>)
  \o (IF WasRead(targets, workingDirectory, 3) THEN InRank(targets, 3, 1) ELSE <<>>)

ExpectedOrder(targets) ==
  InRank(targets, 1, 1) \o InRank(targets, 2, 1) \o InRank(targets, 3, 1)

\* C13: the assembled context lists the sections of the targets that were read in the
\* order critical, important (or no priority), supplementary, and within one
\* priority in input order, in whatever order the concurrent reads complete.
C13_SectionsInPriorityThenInputOrder ==
  out.op = "analyzeTargetedSections" =>
    LET listed == ListedSections(SplitLines(out.res.content), 1)
        order == ReadOrder(out.arg.targets, out.arg.workingDirectory)
    IN /\ Len(listed) = Len(order)
       /\ \A k \in 1..Len(order) : listed[k].file = out.arg.targets[order[k]].file

\* supplementary, critical, critical given in that order; the two critical reads
\* complete in the reverse of their input order
W_C13 ==
  /\ out.op = "analyzeTargetedSections"
  /\ out.arg.targets =
       <<Target("a.ts", "full", NoNumber, NoNumber, NoNumber, "supplementary"),
         Target("b.ts", "head", 2, NoNumber, NoNumber, "critical"),
         Target("missing.ts", "tail", 1, NoNumber, NoNumber, "critical")>>
  /\ readLog = <<Opened(2), Opened(3), Done(3), Done(2), Opened(1), Done(1)>>
  /\ [k \in 1..3 |-> ListedSections(SplitLines(out.res.content), 1)[k].file]
       = <<"b.ts", "missing.ts", "a.ts">>

\* C14: a read of a target is started only when every read started for a target of an
\* earlier priority has completed, never before a read of an earlier priority, and
\* the reads of one priority are all started together, before any of them completes.
C14_GroupsInTurnEachAsOneBatch ==
  (asm.state = "awaiting" \/ out.op = "analyzeTargetedSections") =>
    LET targets == IF asm.state = "awaiting" THEN asm.targets ELSE out.arg.targets
        IsOpen(k) == readLog[k].ev = "open"
        Rank(k) == RankOf(targets[readLog[k].id])
    IN \A k \in DOMAIN readLog : IsOpen(k) =>
         /\ \A j \in 1..(k - 1) : IsOpen(j) =>
              /\ Rank(j) <= Rank(k)
              /\ Rank(j) < Rank(k) =>
                   \E m \in (j + 1)..(k - 1) : readLog[m] = Done(readLog[j].id)
              /\ Rank(j) = Rank(k) => \A m \in j..k : IsOpen(m)
         /\ \A i \in DOMAIN targets : RankOf(targets[i]) = Rank(k) =>
              \E j \in DOMAIN readLog : readLog[j] = Opened(i)

\* two critical reads complete in the reverse of their input order, and only then is
\* the read of the supplementary target started
W_C14 ==
  /\ asm.state = "awaiting"
  /\ asm.group = 3
  /\ readLog = <<Opened(2), Opened(3), Done(3), Done(2), Opened(1)>>

\* C15: every target given to the assembler has its section in the output, at its
\* place in the order, and a target whose read fails has an error text there.
C15_EveryTargetListed ==
  (out.op = "analyzeTargetedSections" /\ toolConfig.readFile.enabled) =>
    LET listed == ListedSections(SplitLines(out.res.content), 1)
        order == ExpectedOrder(out.arg.targets)
    IN /\ Len(listed) = Len(order)
       /\ \A k \in 1..Len(order) :
            /\ listed[k].file = out.arg.targets[order[k]].file
            /\ ~readSingleFile(fs, FileRequest(out.arg.targets[order[k]],
                                               out.arg.workingDirectory)).success
                 => listed[k].failed

C17_InvalidCombinationRejectedPerRequest ==
  LET ModeOf(r) == IF r.mode = Undefined THEN "full" ELSE r.mode
      Invalid(r) ==
        \/ ModeOf(r) = "full" /\ (Given(r.lines) \/ Given(r.startLine) \/ Given(r.endLine))
        \/ ModeOf(r) \in {"head", "tail"}
             /\ (~Given(r.lines) \/ Given(r.startLine) \/ Given(r.endLine))
        \/ ModeOf(r) = "range"
             /\ (\/ ~Given(r.startLine) \/ ~Given(r.endLine)
                 \/ r.startLine > r.endLine
                 \/ Given(r.lines))
  IN /\ (out.op = "readFileTool" /\ Invalid(out.arg)) =>
          /\ out.res.success = FALSE
          /\ "error" \in DOMAIN out.res
          /\ readLog = <<>>
     /\ (/\ out.op = "readMultipleFilesTool"
         /\ \E i \in DOMAIN out.arg : Invalid(out.arg[i])
         /\ \E i \in DOMAIN out.arg : ReadFileArgsSchema(out.arg[i]).success) =>
          /\ Len(out.res.results) = Len(out.arg)
          /\ \A i \in DOMAIN out.arg :
               IF Invalid(out.arg[i])
               THEN out.res.results[i].error # Undefined
               ELSE out.res.results[i]
                      = ResultOf(out.arg[i].path, readSingleFile(fs, out.arg[i]))

(***************************************************************************)
(* Part V: ConfigurationValidator                                          *)
(***************************************************************************)

ValidationIssue(field, message, category, provider) ==
  [field |-> field, message |-> message, category |-> category, provider |-> provider]

ValidationResult(errors, warnings) ==
  [isValid |-> errors = <<>>, errors |-> errors, warnings |-> warnings]

\* one required rule of validateProviderConfig: missing, then of the wrong type (the
\* values of a ProviderConfiguration have the type of their field), then not valid
RequiredRule(providerName, field, type, missing, typeOk, valid, errorMessage) ==
  IF missing
  THEN <<ValidationIssue(field, errorMessage, "configuration", providerName)>>
  ELSE IF ~typeOk
  THEN <<ValidationIssue(field, field \o " must be of type " \o type, "validation",
                         providerName)>>
  ELSE IF ~valid
  THEN <<ValidationIssue(field, errorMessage, "validation", providerName)>>
  ELSE <<>>

\* one optional rule: skipped when the field is absent
OptionalRule(providerName, field, absent, valid, errorMessage) ==
  IF absent \/ valid THEN <<>>
  ELSE <<ValidationIssue(field, errorMessage, "validation", providerName)>>

\* PROVIDER_VALIDATION_RULES.base, then the rules of the provider
ProviderRuleErrors(providerName, config) ==
  RequiredRule(providerName, "apiKey", "string",
               config.apiKey \in {Undefined, Null, ""}, TRUE, Len(config.apiKey) > 0,
               "API key must be a non-empty string")
  \o RequiredRule(providerName, "model", "string",
                  config.model \in {Undefined, Null, ""}, TRUE, Len(config.model) > 0,
                  "Model name must be a non-empty string")
  \o RequiredRule(providerName, "temperature", "number",
                  config.temperature = NoNumber, TRUE,
                  config.temperature >= 0 /\ config.temperature <= 2 * Scale,
                  "Temperature must be a number between 0 and 2")
  \o RequiredRule(providerName, "maxTokens", "number",
                  config.maxTokens = NoNumber, TRUE,
                  config.maxTokens > 0 /\ config.maxTokens <= 200000,
                  "Max tokens must be a positive number up to 200,000")
  \o RequiredRule(providerName, "timeout", "number",
                  config.timeout = NoNumber, TRUE,
                  config.timeout > 0 /\ config.timeout <= 300000,
                  "Timeout must be a positive number up to 300,000ms (5 minutes)")
  \o (IF providerName # "openai" THEN <<>>
      ELSE OptionalRule(providerName, "maxCompletionTokens",
                        config.maxCompletionTokens = NoNumber,
                        config.maxCompletionTokens > 0
                          /\ config.maxCompletionTokens <= 100000,
                        "Max completion tokens must be a positive number up to 100,000")
           \o OptionalRule(providerName, "verbosity",
                           config.verbosity \in {Undefined, Null},
                           config.verbosity \in VerbosityValues,
                           "Verbosity must be low, medium, or high")
           \o OptionalRule(providerName, "reasoningEffort",
                           config.reasoningEffort \in {Undefined, Null},
                           config.reasoningEffort \in ReasoningEffortValues,
                           "Reasoning effort must be minimal, low, medium, or high"))

validateProviderConfig(providerName, config) ==
  ValidationResult(ProviderRuleErrors(providerName, config), <<>>)

\* one rule of GLOBAL_VALIDATION_RULES (both are required)
GlobalRule(field, fieldValue, valid, errorMessage) ==
  IF fieldValue \in {Undefined, ""}
  THEN <<ValidationIssue(field, errorMessage, "configuration", Undefined)>>
  ELSE IF ~valid
  THEN <<ValidationIssue(field, errorMessage, "validation", Undefined)>>
  ELSE <<>>

RECURSIVE TrimmedPieces(_)
TrimmedPieces(pieces) ==
  IF pieces = <<>> THEN {} ELSE {Trim(Head(pieces))} \cup TrimmedPieces(Tail(pieces))

CrossDependencyErrors_OnlyForKnownDefault(defaultProvider, providerPriority) ==
  IF /\ defaultProvider \in Providers
     /\ providerPriority \notin {Undefined, ""}
     /\ defaultProvider \notin TrimmedPieces(SplitComma(providerPriority))
  THEN <<ValidationIssue("DEFAULT_LLM_PROVIDER",
                         "DEFAULT_LLM_PROVIDER must be included in PROVIDER_SELECTION_PRIORITY",
                         "configuration", Undefined)>>
  ELSE <<>>

\* validateCrossDependencies: a default provider outside the priority list
CrossDependencyErrors(defaultProvider, providerPriority) ==
  IF /\ defaultProvider \notin {Undefined, ""}
     /\ providerPriority \notin {Undefined, ""}
     /\ defaultProvider \notin TrimmedPieces(SplitComma(providerPriority))
  THEN <<ValidationIssue("DEFAULT_LLM_PROVIDER",
                         "DEFAULT_LLM_PROVIDER must be included in PROVIDER_SELECTION_PRIORITY",
                         "configuration", Undefined)>>
  ELSE <<>>

PriorityListValid(providers) == providers # <<>> /\ Unsupported(providers) = <<>>

GlobalErrors(providerPriority, defaultProvider) ==
  GlobalRule("PROVIDER_SELECTION_PRIORITY", providerPriority,
             providerPriority \notin {Undefined, ""}
               /\ PriorityListValid(TrimmedNonEmpty(SplitComma(providerPriority))),
             "PROVIDER_SELECTION_PRIORITY must be a comma-separated list of valid providers")
  \o GlobalRule("DEFAULT_LLM_PROVIDER", defaultProvider, defaultProvider \in Providers,
                "DEFAULT_LLM_PROVIDER must be a valid provider name")
  \o CrossDependencyErrors(defaultProvider, providerPriority)

\* ConfigurationValidator.validateGlobalConfig: reads process.env itself
validateGlobalConfig ==
  ValidationResult(GlobalErrors(EnvGet("PROVIDER_SELECTION_PRIORITY"),
                                EnvGet("DEFAULT_LLM_PROVIDER")), <<>>)

\* the body of the loop of validateAllProviders for one provider that has an API key:
\* what getUnifiedProviderConfig throws is caught and becomes an error
ProviderFindings(name, providerConfig) ==
  IF providerConfig.kind = "throw"
  THEN ValidationResult(
         <<ValidationIssue("configuration",
                           "Failed to validate provider " \o name \o ": " \o providerConfig.code,
                           "configuration", name)>>, <<>>)
  ELSE IF providerConfig.kind = "null"
  THEN [isValid |-> TRUE, errors |-> <<>>,
        warnings |-> <<ValidationIssue("configuration",
                                       "Could not load configuration for provider " \o name,
                                       Undefined, name)>>]
  ELSE validateProviderConfig(name, providerConfig.val)

Merged_RestFirst(first, rest) ==
  [isValid |-> first.isValid /\ rest.isValid,
   errors |-> rest.errors \o first.errors,
   warnings |-> rest.warnings \o first.warnings]

Merged(first, rest) ==
  [isValid |-> first.isValid /\ rest.isValid,
   errors |-> first.errors \o rest.errors,
   warnings |-> first.warnings \o rest.warnings]

RECURSIVE AllFindings(_)
AllFindings(configuredProviders) ==
  IF configuredProviders = <<>> THEN ValidationResult(<<>>, <<>>)
  ELSE Merged(IF ~Head(configuredProviders).hasApiKey
              THEN [isValid |-> TRUE, errors |-> <<>>,
                    warnings |->
                      <<ValidationIssue("apiKey",
                                        "Provider " \o Head(configuredProviders).name
                                          \o " has no API key configured",
                                        Undefined, Head(configuredProviders).name)>>]
              ELSE ProviderFindings(Head(configuredProviders).name,
                                    getUnifiedProviderConfig(Head(configuredProviders).name)),
              AllFindings(Tail(configuredProviders)))

\* validateAllProviders after its call of getConfiguredProviders, which is made
\* outside the try block: what that call throws is thrown on
ValidatedProviders(configuredProviders) ==
  IF configuredProviders.kind = "throw" THEN configuredProviders
  ELSE IF Len(configuredProviders.val) = 0
  THEN Ok(ValidationResult(
            <<ValidationIssue("providers",
                              "No providers are configured. At least one provider with API key is required.",
                              "configuration", Undefined)>>, <<>>))
  ELSE Ok(AllFindings(configuredProviders.val))

validateAllProviders == ValidatedProviders(getConfiguredProviders)

SystemResult(globalValidation, providerValidation) ==
  IF providerValidation.kind = "throw" THEN providerValidation
  ELSE Ok(Merged(globalValidation, providerValidation.val))

\* ConfigurationValidator.validateSystem: the ValidationResult it returns, or what it throws
validateSystem == SystemResult(validateGlobalConfig, validateAllProviders)

CallValidateGlobalConfig ==
  /\ out.op = "none"
  /\ out' = Returned("validateGlobalConfig", <<>>, Ok(validateGlobalConfig))
  /\ UNCHANGED <<env, cacheVars, restVars>>

CallValidateAllProviders ==
  /\ out.op = "none"
  /\ out' = Returned("validateAllProviders", <<>>, validateAllProviders)
  /\ UNCHANGED <<env, cacheVars, restVars>>

CallValidateSystem ==
  /\ out.op = "none"
  /\ out' = Returned("validateSystem", <<>>, validateSystem)
  /\ UNCHANGED <<env, cacheVars, restVars>>

NextValidation ==
  \/ CallValidateGlobalConfig
  \/ CallValidateAllProviders
  \/ CallValidateSystem
  \/ TakeResult

\* environments for the cross-dependency rule: the priority list names known providers only
CrossDependencyEnvs ==
  [DEFAULT_LLM_PROVIDER : {Undefined, "", "openai", "google"},
   PROVIDER_SELECTION_PRIORITY : {Undefined, "", "anthropic,google", "anthropic , openai"},
   OPENAI_API_KEY : {Undefined, "sk-abc123realkey"},
   OPENAI_MODEL : {"gpt-4o"}]

InitValidation ==
  /\ InitCache
  /\ InitRestIdle
  /\ env \in TemperatureEnvs \cup RequiredFieldEnvs \cup SelectionEnvs \cup ApiKeyEnvs
               \cup CrossDependencyEnvs
  /\ out = [op |-> "none"]

SpecValidation == InitValidation /\ [][NextValidation]_vars

\* C20: validateSystem never throws; in every environment it returns a result that
\* carries the list of errors and the list of warnings.
C20_ValidateSystemReturnsResult ==
  out.op = "validateSystem" =>
    /\ out.res.kind = "ok"
    /\ {"isValid", "errors", "warnings"} \subseteq DOMAIN out.res.val

\* what validateAllProviders finds for one entry of getConfiguredProviders
EntryFindings(entry) ==
  IF ~entry.hasApiKey
  THEN [isValid |-> TRUE, errors |-> <<>>,
        warnings |-> <<ValidationIssue("apiKey",
                                       "Provider " \o entry.name \o " has no API key configured",
                                       Undefined, entry.name)>>]
  ELSE ProviderFindings(entry.name, getUnifiedProviderConfig(entry.name))

RECURSIVE ConcatField(_, _, _)
ConcatField(entries, i, field) ==
  IF i > Len(entries) THEN <<>>
  ELSE EntryFindings(entries[i])[field] \o ConcatField(entries, i + 1, field)

AggregateOf(result, globalValidation, entries) ==
  /\ result.isValid = (/\ globalValidation.isValid
                       /\ \A i \in 1..Len(entries) : EntryFindings(entries[i]).isValid)
  /\ result.errors = globalValidation.errors \o ConcatField(entries, 1, "errors")
  /\ result.warnings = globalValidation.warnings \o ConcatField(entries, 1, "warnings")

\* C22: the result of validateSystem has isValid equal to the conjunction of the global
\* result and the result of every provider, and its errors and its warnings are the
\* lists of the global result followed by those of the providers in enumeration order.
C22_SystemResultIsOrderedUnion ==
  (out.op = "validateSystem" /\ out.res.kind = "ok") =>
    AggregateOf(out.res.val, validateGlobalConfig, getConfiguredProviders.val)

\* validateSystem returned global errors followed by the errors of a provider, and
\* warnings of two providers
W_C22 ==
  /\ out.op = "validateSystem"
  /\ out.res.kind = "ok"
  /\ validateGlobalConfig.errors # <<>>
  /\ Len(out.res.val.errors) > Len(validateGlobalConfig.errors)
  /\ Len(out.res.val.warnings) >= 2
  /\ ~out.res.val.isValid

\* the names a priority list holds: its comma-separated pieces, trimmed
ListedProviders(providerPriority) ==
  {Trim(SplitComma(providerPriority)[i]) : i \in 1..Len(SplitComma(providerPriority))}

NamesCrossDependency(issue) ==
  /\ issue.field = "DEFAULT_LLM_PROVIDER"
  /\ Includes(issue.message, "PROVIDER_SELECTION_PRIORITY")

DefaultOutsidePriorityList ==
  /\ EnvGet("DEFAULT_LLM_PROVIDER") \notin {Undefined, ""}
  /\ EnvGet("PROVIDER_SELECTION_PRIORITY") \notin {Undefined, ""}
  /\ EnvGet("DEFAULT_LLM_PROVIDER") \notin ListedProviders(EnvGet("PROVIDER_SELECTION_PRIORITY"))

\* C23: when DEFAULT_LLM_PROVIDER and PROVIDER_SELECTION_PRIORITY are both set and the
\* default provider is not in the priority list, validateGlobalConfig returns
\* isValid false with an error that names the cross-dependency.
C23_DefaultOutsidePriorityListIsAnError ==
  (out.op = "validateGlobalConfig" /\ DefaultOutsidePriorityList) =>
    /\ ~out.res.val.isValid
    /\ \E i \in 1..Len(out.res.val.errors) : NamesCrossDependency(out.res.val.errors[i])

\* validateGlobalConfig returned for a known default provider that a priority list of
\* known providers does not hold: the cross-dependency is the only error
W_C23 ==
  /\ out.op = "validateGlobalConfig"
  /\ DefaultOutsidePriorityList
  /\ Len(out.res.val.errors) = 1

(***************************************************************************)
(* The numeric limits: getMaxTokens and getTimeout over their three tiers  *)
(***************************************************************************)
LimitSamples == {Undefined, " ", "abc", "0", "-5", "0.5", " 100 ", "4096.7"}

MaxTokensEnvs ==
  [OPENAI_MAX_TOKENS : LimitSamples,
   LLM_MAX_TOKENS : LimitSamples,
   LLM_MAX_TOKENS_DEFAULT : LimitSamples]

TimeoutEnvs ==
  [OPENAI_TIMEOUT : LimitSamples,
   LLM_TIMEOUT : LimitSamples,
   LLM_TIMEOUT_DEFAULT : LimitSamples]

InitLimits ==
  /\ InitCache
  /\ InitRestIdle
  /\ env \in MaxTokensEnvs \cup TimeoutEnvs
  /\ out = [op |-> "none"]

NextLimits ==
  \/ \E p \in Providers : CallGetMaxTokens(p)
  \/ \E p \in Providers : CallGetTimeout(p)
  \/ TakeResult

SpecLimits == InitLimits /\ [][NextLimits]_vars

\* the three tiers of a limit, as numbers: provider-specific, global, default
LimitTiers(providerName, suffix) ==
  <<NumberOf(EnvGet(ToUpperCase(providerName) \o "_" \o suffix)),
    NumberOf(EnvGet("LLM_" \o suffix)),
    NumberOf(EnvGet("LLM_" \o suffix \o "_DEFAULT"))>>

FirstPositiveTier(tiers, value) ==
  \E i \in 1..3 :
    /\ IsPositive(tiers[i])
    /\ value = Floor(tiers[i].val)
    /\ \A j \in 1..(i - 1) : ~IsPositive(tiers[j])

\* C25: whenever getMaxTokens or getTimeout returns, the value is an integer >= 1 and
\* is that of the first tier (provider-specific, global, default) that holds a positive
\* number; tiers that do not are skipped.
C25_LimitIsPositiveIntegerOfFirstValidTier ==
  \A p \in Providers :
    /\ (out.op = "getMaxTokens" /\ out.arg = p /\ out.res.kind = "ok") =>
         /\ out.res.val >= 1
         /\ FirstPositiveTier(LimitTiers(p, "MAX_TOKENS"), out.res.val)
    /\ (out.op = "getTimeout" /\ out.arg = p /\ out.res.kind = "ok") =>
         /\ out.res.val >= 1
         /\ FirstPositiveTier(LimitTiers(p, "TIMEOUT"), out.res.val)

(***************************************************************************)
(* The enumerated extended parameters: getVerbosity and getReasoningEffort *)
(***************************************************************************)
EnumSamples == {Undefined, " ", "loud", " low ", "high", "minimal"}

ExtendedEnvs ==
  [OPENAI_VERBOSITY : EnumSamples,
   OPENAI_VERBOSITY_DEFAULT : EnumSamples,
   OPENAI_REASONING_EFFORT : EnumSamples,
   OPENAI_REASONING_EFFORT_DEFAULT : EnumSamples]

InitExtended ==
  /\ InitCache
  /\ InitRestIdle
  /\ env \in ExtendedEnvs
  /\ out = [op |-> "none"]

CallGetVerbosity ==
  /\ out.op = "none"
  /\ out' = Returned("getVerbosity", <<>>, getVerbosity)
  /\ UNCHANGED <<env, cacheVars, restVars>>

CallGetReasoningEffort ==
  /\ out.op = "none"
  /\ out' = Returned("getReasoningEffort", <<>>, getReasoningEffort)
  /\ UNCHANGED <<env, cacheVars, restVars>>

NextExtended ==
  \/ CallGetVerbosity
  \/ CallGetReasoningEffort
  \/ TakeResult

SpecExtended == InitExtended /\ [][NextExtended]_vars

\* a tier holds a valid value when it is non-empty after trimming and one of the allowed
ValidTier(v, allowed) == HasText(v) /\ Trim(v) \in allowed

FirstValidTier(value, defaultValue, allowed) ==
  IF ValidTier(value, allowed) THEN Trim(value)
  ELSE IF ValidTier(defaultValue, allowed) THEN Trim(defaultValue)
  ELSE Null

\* C26: verbosity is the first of OPENAI_VERBOSITY, OPENAI_VERBOSITY_DEFAULT that is
\* non-empty after trimming and one of low, medium, high; reasoningEffort likewise over
\* minimal, low, medium, high; the parameter is absent only when no tier is valid.
C26_EnumeratedParameterIsFirstValidTier ==
  /\ out.op = "getVerbosity" =>
       out.res = FirstValidTier(EnvGet("OPENAI_VERBOSITY"),
                                EnvGet("OPENAI_VERBOSITY_DEFAULT"), {"low", "medium", "high"})
  /\ out.op = "getReasoningEffort" =>
       out.res = FirstValidTier(EnvGet("OPENAI_REASONING_EFFORT"),
                                EnvGet("OPENAI_REASONING_EFFORT_DEFAULT"),
                                {"minimal", "low", "medium", "high"})

(***************************************************************************)
(* invalidateCache(pattern) over a cache filled by set, with the call and  *)
(* the cache it found kept in out                                          *)
(***************************************************************************)
Forgotten ==
  /\ out' = [op |-> "none"]
  /\ UNCHANGED <<hist, env, restVars>>

\* invalidateCache(pattern): envCache.invalidate(pattern)
CallInvalidateCache(pattern) ==
  /\ Invalidate(pattern)
  /\ out' = Returned("invalidateCache", pattern, cache)
  /\ UNCHANGED <<hist, env, restVars>>

NextInvalidate ==
  \/ Tick /\ Forgotten
  \/ \E k \in Keys, v \in Values \cup {Undefined}, t \in TTLArgs : Set(k, v, t) /\ Forgotten
  \/ \E p \in Patterns : CallInvalidateCache(p)

SpecInvalidate == Init /\ [][NextInvalidate]_vars

\* what the pattern selects: keys starting with X for "X*", ending with X for "*X",
\* containing the pattern otherwise, every key when there is no pattern
Selected(pattern, key) ==
  \/ pattern = ""
  \/ /\ pattern # "" /\ EndsWith(pattern, "*")
     /\ StartsWith(key, SubSeq(pattern, 1, Len(pattern) - 1))
  \/ /\ pattern # "" /\ ~EndsWith(pattern, "*") /\ StartsWith(pattern, "*")
     /\ EndsWith(key, SubSeq(pattern, 2, Len(pattern)))
  \/ /\ pattern # "" /\ ~EndsWith(pattern, "*") /\ ~StartsWith(pattern, "*")
     /\ Includes(key, pattern)

Invalidated(s) ==
  /\ s \in DOMAIN pending
  /\ \/ pending[s].key \notin DOMAIN inFlight
     \/ inFlight[pending[s].key] # s

\* C28: a computation that was in flight when delete, invalidate or clear removed its
\* key does not repopulate the cache with its result when it settles.
C28_InvalidatedComputationDoesNotRepopulate ==
  [][\A s \in Serials, v \in Values :
       (Invalidated(s) /\ SettleOk(s, v)) => cache' = cache]_vars

\* the read of a target failed: the file could not be read as asked, or the service
\* refused its content for its size
ReadFailed(config, result) ==
  \/ ~result.success
  \/ Len(result.content) > config.maxFileSizeKB

\* C30: a section says "Failed to read section" only if the read of its target failed;
\* a read that succeeds with empty content is emitted as a content section.
C30_FailureReportedOnlyForFailedReads ==
  out.op = "analyzeTargetedSections" =>
    \A k \in 1..Min(Len(ListedSections(SplitLines(out.res.content), 1)),
                    Len(ReadOrder(out.arg.targets, out.arg.workingDirectory))) :
      ListedSections(SplitLines(out.res.content), 1)[k].failed =>
        ReadFailed(toolConfig,
                   readSingleFile(fs, FileRequest(
                     out.arg.targets[ReadOrder(out.arg.targets, out.arg.workingDirectory)[k]],
                     out.arg.workingDirectory)))

(***************************************************************************)
(* Part VI: the start-up of the server, main()                             *)
(***************************************************************************)

\* the body of the loop of loadConfig for a provider whose key is present and valid: the
\* first of getModel, getTemperature, getMaxTokens, getTimeout that throws ends loadConfig
LoadedProvider(providerName) ==
  LET Loaded(model, temperature, maxTokens, timeout) ==
        IF model.kind = "throw" THEN model
        ELSE IF temperature.kind = "throw" THEN temperature
        ELSE IF maxTokens.kind = "throw" THEN maxTokens
        ELSE IF timeout.kind = "throw" THEN timeout
        ELSE Ok([name |-> providerName, enabled |-> TRUE, model |-> model.val,
                 temperature |-> temperature.val, maxTokens |-> maxTokens.val,
                 timeout |-> timeout.val])
  IN Loaded(getModel(providerName), getTemperature(providerName),
            getMaxTokens(providerName), getTimeout(providerName))

\* the loop of loadConfig over SUPPORTED_PROVIDERS, in order
RECURSIVE LoadedProviders(_)
LoadedProviders(names) ==
  IF names = <<>> THEN Ok(<<>>)
  ELSE LET Push(provider, rest) ==
             IF provider.kind = "throw" THEN provider
             ELSE IF rest.kind = "throw" THEN rest
             ELSE Ok(<<provider.val>> \o rest.val)
           Skip(rest) == rest
           Enabled(name, apiKey) == TruthyText(apiKey) /\ validateApiKey(name, apiKey)
       IN IF Enabled(Head(names), EnvGet(ToUpperCase(Head(names)) \o "_API_KEY"))
          THEN Push(LoadedProvider(Head(names)), LoadedProviders(Tail(names)))
          ELSE Skip(LoadedProviders(Tail(names)))

\* loadConfig after its loop: no provider, no default provider, a default provider that
\* is not among the loaded ones each throw; the memory and logging settings never do
LoadedConfig(providers, defaultProvider) ==
  IF providers.kind = "throw" THEN providers
  ELSE IF providers.val = <<>> THEN Throw("NO_PROVIDERS_CONFIGURED", Undefined, Undefined)
  ELSE IF defaultProvider.kind = "throw" THEN defaultProvider
  ELSE IF \A i \in DOMAIN providers.val : providers.val[i].name # defaultProvider.val
  THEN Throw("DEFAULT_PROVIDER_NOT_CONFIGURED", defaultProvider.val,
             ToUpperCase(defaultProvider.val) \o "_API_KEY")
  ELSE Ok([providers |-> providers.val, defaultProvider |-> defaultProvider.val])

loadConfig == LoadedConfig(LoadedProviders(SUPPORTED_PROVIDERS), getDefaultProvider)

\* the issues of validateConfiguration: the errors, then the warnings, in the legacy format
LegacyIssues(type, verb, findings) ==
  [i \in DOMAIN findings |->
     [type |-> type, message |-> findings[i].message, field |-> findings[i].field,
      suggestion |->
        verb \o (IF TruthyText(findings[i].provider)
                 THEN "[" \o findings[i].provider \o "] " ELSE "")
             \o findings[i].field \o " configuration"]]

LegacyResult(comprehensiveResult) ==
  IF comprehensiveResult.kind = "throw" THEN comprehensiveResult
  ELSE Ok([valid |-> comprehensiveResult.val.isValid,
           issues |-> LegacyIssues("error", "Check ", comprehensiveResult.val.errors)
                        \o LegacyIssues("warning", "Consider reviewing ",
                                        comprehensiveResult.val.warnings)])

\* validateConfiguration: the legacy result, or what validateSystem throws
validateConfiguration == LegacyResult(validateSystem)

\* the line that printValidationResults writes for the message of an issue
IssueLine(type, message) == "[" \o type \o "] " \o message

\* the lines that printValidationResults writes for the issues from the i-th on
RECURSIVE IssueLines(_, _)
IssueLines(issues, i) ==
  IF i > Len(issues) THEN <<>>
  ELSE <<IssueLine(issues[i].type, issues[i].message)>>
       \o (IF TruthyText(issues[i].field) THEN <<"   Field: " \o issues[i].field>> ELSE <<>>)
       \o (IF TruthyText(issues[i].suggestion)
           THEN <<"   Suggestion: " \o issues[i].suggestion>> ELSE <<>>)
       \o (IF i < Len(issues) THEN <<"">> ELSE <<>>)
       \o IssueLines(issues, i + 1)

\* printValidationResults: the lines written to the console
printValidationResults(result) ==
  <<"Configuration Validation Results:", "=====================================">>
  \o <<IF result.valid THEN "Configuration is valid" ELSE "Configuration has issues">>
  \o (IF result.issues = <<>> THEN <<"No issues found.">> ELSE IssueLines(result.issues, 1))
  \o <<"=====================================">>

\* main().catch: the error is written and the process exits with code 1
Fatal(error) ==
  [pc |-> "exited",
   console |-> startup.console \o <<"Fatal error in Athena Protocol: " \o error.code>>,
   exit |-> "1"]

MainFrame == UNCHANGED <<env, out, cacheVars, sourceVars, readerVars, sessionVars>>

\* main() up to its call of loadConfig
MainStart ==
  /\ startup.pc = "none"
  /\ startup' = [startup EXCEPT
                   !.pc = "loadConfig",
                   !.console = <<"Initializing Athena Protocol MCP Server...",
                                 "Loading configuration...">>]
  /\ MainFrame

\* main(): loadConfig, whose error goes to main().catch
MainLoadConfig ==
  /\ startup.pc = "loadConfig"
  /\ startup' = IF loadConfig.kind = "throw" THEN Fatal(loadConfig)
                ELSE [startup EXCEPT
                        !.pc = "validateConfiguration",
                        !.console = @ \o <<"Loaded config with providers",
                                           "Validating configuration...">>]
  /\ MainFrame

\* main(): validateConfiguration and printValidationResults
MainValidate ==
  /\ startup.pc = "validateConfiguration"
  /\ startup' = IF validateConfiguration.kind = "throw" THEN Fatal(validateConfiguration)
                ELSE [startup EXCEPT
                        !.pc = IF validateConfiguration.val.valid THEN "valid" ELSE "invalid",
                        !.console = @ \o printValidationResults(validateConfiguration.val)]
  /\ MainFrame

\* main(): the configuration is not valid, the process exits with code 1
MainRefuse ==
  /\ startup.pc = "invalid"
  /\ \E mcpServerMode \in BOOLEAN :
       startup' = [pc |-> "exited",
                   console |-> startup.console
                     \o <<"Configuration validation failed. Please fix the issues above.">>
                     \o (IF mcpServerMode
                         THEN <<"Tip: Check your MCP client configuration",
                                "Example MCP configuration">>
                         ELSE <<"Tip: Check your .env file">>),
                   exit |-> "1"]
  /\ MainFrame

\* main(): the configuration is valid, the server goes on to start
MainProceed ==
  /\ startup.pc = "valid"
  /\ startup' = [startup EXCEPT
                   !.pc = "starting",
                   !.console = @ \o <<"Configuration validation passed. Starting server...">>]
  /\ MainFrame

NextStartup ==
  \/ MainStart
  \/ MainLoadConfig
  \/ MainValidate
  \/ MainRefuse
  \/ MainProceed

\* environments of a start-up: with and without a usable provider, default and priority
StartupEnvs ==
  [OPENAI_API_KEY : {Undefined, "sk-abc123realkey"},
   OPENAI_MODEL : {Undefined, "gpt-4o"},
   LLM_TEMPERATURE : {Undefined, "0.7"},
   LLM_MAX_TOKENS : {"2000"},
   LLM_TIMEOUT : {"30000"},
   DEFAULT_LLM_PROVIDER : {Undefined, "openai", "google"},
   PROVIDER_SELECTION_PRIORITY : {Undefined, "openai", "anthropic,google", "mistral"}]

InitStartup ==
  /\ InitCache
  /\ InitRestIdle
  /\ env \in StartupEnvs \cup RequiredFieldEnvs \cup SelectionEnvs \cup CrossDependencyEnvs
  /\ out = [op |-> "none"]

SpecStartup == InitStartup /\ [][NextStartup]_vars

\* every error and every warning of the system validation is among the lines written
AllFindingsPrinted(console, comprehensiveResult) ==
  /\ comprehensiveResult.kind = "ok"
  /\ \A i \in DOMAIN comprehensiveResult.val.errors :
       \E j \in DOMAIN console :
         console[j] = IssueLine("error", comprehensiveResult.val.errors[i].message)
  /\ \A i \in DOMAIN comprehensiveResult.val.warnings :
       \E j \in DOMAIN console :
         console[j] = IssueLine("warning", comprehensiveResult.val.warnings[i].message)

\* C21: when the start-up refuses to proceed (the process exits with code 1), every error
\* and every warning of the system validation has been printed before; the process never
\* stops after reporting only the first problem.
C21_EveryFindingPrintedBeforeRefusal ==
  startup.exit = "1" => AllFindingsPrinted(startup.console, validateSystem)

(***************************************************************************)
(* Part VII: the sessions of ThinkingValidator.validateThinking            *)
(*                                                                         *)
(* A call is suspended at each await on a collaborator: the session store  *)
(* (getSession, createSession, addValidationAttempt) and the model service *)
(* (generateTextService).  Each of them resolves or rejects.  The store is *)
(* a map from session id to the history kept for it.  The calls carry no   *)
(* provider override and no project context.                               *)
(***************************************************************************)
MaxOps == 2

SessionIds == {"new", "old"}
\* the sessions persisted by an earlier run of the server
PersistedIds == {"old"}

\* what generateTextService resolves with, and how it fails
Replies == {"json", "text"}
ModelFailures == {"error", "timeout"}

\* ThinkingMemorySystem.getSession(id): the stored session, absent for an unknown id
StoredSession(id) ==
  IF id \in DOMAIN memoryStore
  THEN [found |-> TRUE, validationHistory |-> memoryStore[id]]
  ELSE [found |-> FALSE, validationHistory |-> <<>>]

\* ThinkingMemorySystem.createSession(context): a session under context.sessionId
StoreWithSession(id) ==
  IF id \in DOMAIN memoryStore THEN memoryStore ELSE MapSet(memoryStore, id, <<>>)

\* ThinkingMemorySystem.addValidationAttempt(id, ...): the attempt joins the history of id
StoreWithAttempt(id, attempt) ==
  IF id \in DOMAIN memoryStore
  THEN MapSet(memoryStore, id, Append(memoryStore[id], attempt)) ELSE memoryStore

\* parseThinkingValidationResponse: the JSON of the reply, or the default response
parseThinkingValidationResponse(response) ==
  IF response = "json" THEN [confidence |-> 90, parsed |-> TRUE]
  ELSE [confidence |-> 50, parsed |-> FALSE]

\* the ValidationAttempt of call o
ValidationAttempt(o, validationResult) ==
  [id |-> o, tool |-> "thinking_validation", confidence |-> validationResult.confidence]

\* a call: the session id it names, where it is suspended, the session object it holds
Operation(sessionId, pc, session, result) ==
  [sessionId |-> sessionId, pc |-> pc, session |-> session, result |-> result]

At(o, pc) == o \in DOMAIN ops /\ ops[o].pc = pc

Settled(o, result) == [ops EXCEPT ![o].pc = "returned", ![o].result = result]

SessionFrame == UNCHANGED <<env, out, cacheVars, sourceVars, readerVars, startup>>

\* validateThinking(request, sessionId) up to its first suspension: getOrCreateSession
\* finds the session among the active ones and the model is called, or asks the store
ValidateThinking(sessionId) ==
  /\ Len(ops) < MaxOps
  /\ ops' = Append(ops,
                   IF sessionId \in DOMAIN activeSessions
                   THEN Operation(sessionId, "generateText", activeSessions[sessionId],
                                  "pending")
                   ELSE Operation(sessionId, "getSession", 0, "pending"))
  /\ UNCHANGED <<activeSessions, sessionObjects, memoryStore>>
  /\ SessionFrame

\* memorySystem.getSession resolves: a stored session becomes the active one and the
\* model is called; for an unknown id a new session object is built and createSession
\* is awaited
GetSessionResolves(o) ==
  /\ At(o, "getSession")
  /\ LET id == ops[o].sessionId
         stored == StoredSession(id)
         ref == Len(sessionObjects) + 1
     IN /\ sessionObjects' =
             Append(sessionObjects,
                    [id |-> id, validationHistory |-> stored.validationHistory,
                     origin |-> IF stored.found THEN "loaded" ELSE "created"])
        /\ activeSessions' =
             IF stored.found THEN MapSet(activeSessions, id, ref) ELSE activeSessions
        /\ ops' = [ops EXCEPT ![o].session = ref,
                              ![o].pc = IF stored.found THEN "generateText"
                                        ELSE "createSession"]
  /\ UNCHANGED memoryStore
  /\ SessionFrame

\* memorySystem.getSession or createSession rejects: getOrCreateSession throws
StoreRejectsSession(o) ==
  /\ At(o, "getSession") \/ At(o, "createSession")
  /\ ops' = Settled(o, "failed")
  /\ UNCHANGED <<activeSessions, sessionObjects, memoryStore>>
  /\ SessionFrame

\* memorySystem.createSession resolves: the new object becomes the active session of
\* its id and the model is called
CreateSessionResolves(o) ==
  /\ At(o, "createSession")
  /\ memoryStore' = StoreWithSession(ops[o].sessionId)
  /\ activeSessions' = MapSet(activeSessions, ops[o].sessionId, ops[o].session)
  /\ ops' = [ops EXCEPT ![o].pc = "generateText"]
  /\ UNCHANGED sessionObjects
  /\ SessionFrame

\* generateTextService resolves: the reply is parsed, the attempt is pushed onto the
\* history of the session object the call holds, that object is set as the active
\* session of its id, and addValidationAttempt is awaited
ModelResponds(o, response) ==
  /\ At(o, "generateText")
  /\ LET attempt == ValidationAttempt(o, parseThinkingValidationResponse(response))
         session == ops[o].session
     IN /\ sessionObjects' =
             [sessionObjects EXCEPT
                ![session].validationHistory = Append(@, attempt)]
        /\ activeSessions' = MapSet(activeSessions, sessionObjects[session].id, session)
  /\ ops' = [ops EXCEPT ![o].pc = "addValidationAttempt"]
  /\ UNCHANGED memoryStore
  /\ SessionFrame

\* generateTextService rejects (an error of the model, a timeout): the call fails
ModelFails(o, failure) ==
  /\ At(o, "generateText")
  /\ ops' = Settled(o, failure)
  /\ UNCHANGED <<activeSessions, sessionObjects, memoryStore>>
  /\ SessionFrame

\* memorySystem.addValidationAttempt resolves: the call returns its validation result
AddValidationAttemptResolves(o) ==
  /\ At(o, "addValidationAttempt")
  /\ memoryStore' =
       StoreWithAttempt(sessionObjects[ops[o].session].id,
                        sessionObjects[ops[o].session].validationHistory[
                          CHOOSE i \in DOMAIN sessionObjects[ops[o].session].validationHistory :
                            sessionObjects[ops[o].session].validationHistory[i].id = o])
  /\ ops' = Settled(o, "ok")
  /\ UNCHANGED <<activeSessions, sessionObjects>>
  /\ SessionFrame

\* memorySystem.addValidationAttempt rejects: the catch of validateThinking throws
AddValidationAttemptRejects(o) ==
  /\ At(o, "addValidationAttempt")
  /\ ops' = Settled(o, "failed")
  /\ UNCHANGED <<activeSessions, sessionObjects, memoryStore>>
  /\ SessionFrame

NextSessions ==
  \/ \E sessionId \in SessionIds : ValidateThinking(sessionId)
  \/ \E o \in 1..MaxOps : GetSessionResolves(o)
  \/ \E o \in 1..MaxOps : StoreRejectsSession(o)
  \/ \E o \in 1..MaxOps : CreateSessionResolves(o)
  \/ \E o \in 1..MaxOps, response \in Replies : ModelResponds(o, response)
  \/ \E o \in 1..MaxOps, failure \in ModelFailures : ModelFails(o, failure)
  \/ \E o \in 1..MaxOps : AddValidationAttemptResolves(o)
  \/ \E o \in 1..MaxOps : AddValidationAttemptRejects(o)

\* a validator just constructed, over a store that holds the sessions of an earlier run
InitSessions ==
  /\ InitCache
  /\ InitConfIdle
  /\ InitSourcesIdle
  /\ InitReaderIdle
  /\ startup = [pc |-> "none", console |-> <<>>, exit |-> "none"]
  /\ activeSessions = EmptyMap
  /\ sessionObjects = <<>>
  /\ memoryStore = [id \in PersistedIds |-> <<>>]
  /\ ops = <<>>

SpecSessions == InitSessions /\ [][NextSessions]_vars

\* the attempt of call o is in a history
Holds(validationHistory, o) ==
  \E i \in DOMAIN validationHistory : validationHistory[i].id = o

\* the attempt of call o is in the history of the active session of id, or in the
\* history the store keeps for id
Recorded(o, id) ==
  \/ id \in DOMAIN activeSessions
       /\ Holds(sessionObjects[activeSessions[id]].validationHistory, o)
  \/ id \in DOMAIN memoryStore /\ Holds(memoryStore[id], o)

\* C24: a call that fails (an error of the model, a timeout, a failure of the store
\* while the attempt is recorded) leaves the history of its session as it was, in memory
\* and in the store: its attempt is in neither; and an attempt is in a history only once
\* the model has answered the call.
C24_FailedCallLeavesHistory ==
  \A o \in DOMAIN ops :
    /\ ops[o].result \notin {"pending", "ok"} => ~Recorded(o, ops[o].sessionId)
    /\ Recorded(o, ops[o].sessionId) => ops[o].pc \in {"addValidationAttempt", "returned"}

\* the session objects built for an id that the store did not know
CreatedFor(id) ==
  {ref \in DOMAIN sessionObjects :
     sessionObjects[ref].id = id /\ sessionObjects[ref].origin = "created"}

\* C29: for calls that name the same session id not seen before, in any interleaving, one
\* session is created for the id, and the attempt of every call that returned its result
\* is in the history of that session.
C29_OneSessionHoldsEveryAttempt ==
  \A id \in SessionIds \ PersistedIds :
    /\ Cardinality(CreatedFor(id)) <= 1
    /\ \A o \in DOMAIN ops :
         (ops[o].sessionId = id /\ ops[o].result = "ok") =>
           /\ id \in DOMAIN activeSessions
           /\ Holds(sessionObjects[activeSessions[id]].validationHistory, o)
====
